---- MODULE Spec2Model ----
(***************************************************************************)
(* Model of the quant engine of daily_stock_analysis: the JSON strategy     *)
(* store (src/quant/strategy_manager.py), the CSV history store             *)
(* (src/quant/data_storage.py), the real-time monitor                       *)
(* (src/quant/monitor.py) as driven by quant_main.run_monitor_mode, the     *)
(* strategy endpoints (api/v1/endpoints/quant.py) and the backtester        *)
(* (src/quant/backtester.py) as called by src/quant/runner.py.              *)
(***************************************************************************)
EXTENDS Integers, Sequences, FiniteSets, TLC

VARIABLES
  strategy_file,        \* data/strategies.json: [state, recs]
  strategies,           \* StrategyManager.strategies of every open manager (handle -> list)
  last,                 \* the last strategy-store call: operation, arguments, result
  stock_history,        \* data/stock_history/<code>.csv, per stock code
  compiled_strategies,  \* RealTimeMonitor.compiled_strategies (insertion-ordered dict)
  history_cache,        \* RealTimeMonitor.history_cache (code -> DataFrame)
  today,                \* the calendar day datetime.now() falls on
  pc,                   \* where run_monitor_mode stands
  tick,                 \* what the last run_once did: snapshot, merged windows, alerts
  backtest              \* the backtest at hand: its inputs, then its result

vars == <<strategy_file, strategies, last, stock_history, compiled_strategies,
          history_cache, today, pc, tick, backtest>>

storeVars == <<strategy_file, strategies, last>>
monitorVars == <<stock_history, compiled_strategies, history_cache, today, pc, tick>>

(***************************************************************************)
(* Bounds of the model.                                                     *)
(***************************************************************************)
MaxStrategies == 2      \* records a strategy list holds at most
MaxDay == 3             \* calendar days the clock runs through

Last(s) == s[Len(s)]
None == [none |-> TRUE]

\* No backtest has been asked for.
NoBacktest == [stage |-> "none"]

(***************************************************************************)
(* Strategy store: src/src/quant/strategy_manager.py                        *)
(***************************************************************************)
\* str(uuid.uuid4())[:8]: eight hex digits drawn at random, not checked
\* against the ids already in the list.
Ids == {"1a2b3c4d", "9f8e7d6c"}
Names == {"ma", "rsi"}
Descriptions == {"MA5 crosses MA20"}
Statuses == {"active", "inactive"}

\* What the generated code of a strategy does when it is called.
StoreCodes == {"breakout"}

\* Outcomes of one _save_strategies call.
\*   ok         the file now holds the list
\*   mkdir_fail os.makedirs raises (outside the try): the exception escapes
\*   open_fail  open(..., 'w') raises: caught and logged, file untouched
\*   dump_fail  json.dump raises after the file was truncated: caught and
\*              logged, the file is left unparseable
SaveOutcomes == {"ok", "mkdir_fail", "open_fail", "dump_fail"}

NoFile == [state |-> "absent", recs |-> <<>>]

\* Faulty variant: the records come back newest first.
load_strategies_newest_first(file) ==
  IF file.state # "ok" THEN <<>>
  ELSE [i \in 1..Len(file.recs) |-> file.recs[Len(file.recs) + 1 - i]]

load_strategies(file) ==
  IF file.state = "absent" THEN <<>>
  ELSE IF file.state = "corrupt" THEN <<>>     \* json.load raises: caught, []
  ELSE file.recs

\* The file after _save_strategies of list strats with the given outcome.
save_strategies(file, strats, outcome) ==
  CASE outcome = "ok"        -> [state |-> "ok", recs |-> strats]
    [] outcome = "dump_fail" -> [state |-> "corrupt", recs |-> <<>>]
    [] OTHER                 -> file

\* Whether _save_strategies lets an exception escape to its caller.
save_raises(outcome) == outcome = "mkdir_fail"

RECURSIVE get_strategy(_, _)
get_strategy(strats, strategy_id) ==
  IF strats = <<>> THEN None
  ELSE IF Head(strats).id = strategy_id THEN Head(strats)
  ELSE get_strategy(Tail(strats), strategy_id)

get_active_strategies(strats) ==
  SelectSeq(strats, LAMBDA s : s.status = "active")

new_strategy(strategy_id, name, description, code) ==
  [id |-> strategy_id, name |-> name, description |-> description,
   code |-> code, status |-> "active"]

\* last: the call (op, handle, arguments), whether an exception escaped it
\* (raised) and whether it reported success (ok: an id or True returned).
NoOp == [op |-> "none", raised |-> FALSE, ok |-> FALSE]

add_strategy(h, strategy_id, name, description, code, outcome) ==
  /\ h \in DOMAIN strategies
  /\ Len(strategies[h]) < MaxStrategies
  /\ LET appended == Append(strategies[h],
                            new_strategy(strategy_id, name, description, code))
     IN /\ strategies' = [strategies EXCEPT ![h] = appended]
        /\ strategy_file' = save_strategies(strategy_file, appended, outcome)
        /\ last' = [op |-> "add", handle |-> h, id |-> strategy_id, name |-> name,
                    description |-> description, code |-> code,
                    raised |-> save_raises(outcome),
                    ok |-> ~save_raises(outcome)]

delete_strategy(h, strategy_id, outcome) ==
  /\ h \in DOMAIN strategies
  /\ LET kept == SelectSeq(strategies[h], LAMBDA s : s.id # strategy_id)
         found == Len(kept) < Len(strategies[h])
     IN /\ strategies' = [strategies EXCEPT ![h] = kept]
        /\ strategy_file' = IF found
                            THEN save_strategies(strategy_file, kept, outcome)
                            ELSE strategy_file
        /\ last' = [op |-> "delete", handle |-> h, id |-> strategy_id,
                    raised |-> found /\ save_raises(outcome),
                    ok |-> found /\ ~save_raises(outcome)]

\* Index of the first record with the id, 0 when there is none.
RECURSIVE first_index(_, _, _)
first_index(strats, strategy_id, i) ==
  IF i > Len(strats) THEN 0
  ELSE IF strats[i].id = strategy_id THEN i
  ELSE first_index(strats, strategy_id, i + 1)

toggle_strategy(h, strategy_id, new_status, outcome) ==
  /\ h \in DOMAIN strategies
  /\ LET i == first_index(strategies[h], strategy_id, 1)
         found == i # 0
         toggled == IF found
                    THEN [strategies[h] EXCEPT ![i].status = new_status]
                    ELSE strategies[h]
     IN /\ strategies' = [strategies EXCEPT ![h] = toggled]
        /\ strategy_file' = IF found
                            THEN save_strategies(strategy_file, toggled, outcome)
                            ELSE strategy_file
        /\ last' = [op |-> "toggle", handle |-> h, id |-> strategy_id,
                    status |-> new_status,
                    raised |-> found /\ save_raises(outcome),
                    ok |-> found /\ ~save_raises(outcome)]

AddStrategy ==
  \E h \in DOMAIN strategies, i \in Ids, n \in Names, d \in Descriptions,
     c \in StoreCodes, o \in SaveOutcomes :
    /\ add_strategy(h, i, n, d, c, o)
    /\ UNCHANGED <<monitorVars, backtest>>

DeleteStrategy ==
  \E h \in DOMAIN strategies, i \in Ids, o \in SaveOutcomes :
    /\ delete_strategy(h, i, o)
    /\ UNCHANGED <<monitorVars, backtest>>

ToggleStrategy ==
  \E h \in DOMAIN strategies, i \in Ids, st \in Statuses, o \in SaveOutcomes :
    /\ toggle_strategy(h, i, st, o)
    /\ UNCHANGED <<monitorVars, backtest>>

(***************************************************************************)
(* History store: src/src/quant/data_storage.py                             *)
(***************************************************************************)
Stocks == {"600519", "000858"}

\* A date as the program holds it: text ("2024-01-05", as read from a CSV
\* cell or built by strftime) or a pandas Timestamp.
DateStr(d) == [kind |-> "str", day |-> d]
Timestamp(d) == [kind |-> "ts", day |-> d]
NoDate == [kind |-> "none", day |-> 0]

\* pd.to_datetime: text or Timestamp to Timestamp.
to_datetime(x) == Timestamp(x.day)

Row(date, open, high, low, close, volume) ==
  [date |-> date, open |-> open, high |-> high, low |-> low,
   close |-> close, volume |-> volume]

\* A DataFrame: whether it has a 'date' column, and its rows in order.
Frame(hasDate, rows) == [hasDate |-> hasDate, rows |-> rows]

NoCsv == [absent |-> TRUE]

\* The CSV files a stock can have on disk.
CsvFiles ==
  { NoCsv,
    \* header only
    Frame(TRUE, <<>>),
    \* saved without a date column
    Frame(FALSE, <<Row(NoDate, 10, 11, 9, 10, 100)>>),
    \* two rising days, written newest first
    Frame(TRUE, <<Row(DateStr(2), 10, 12, 10, 11, 120),
                  Row(DateStr(1), 10, 11, 9, 10, 100)>>),
    \* two flat days, one day later
    Frame(TRUE, <<Row(DateStr(2), 10, 11, 9, 10, 100),
                  Row(DateStr(3), 10, 11, 9, 10, 100)>>) }

\* df.sort_values('date') on rows with distinct dates: insertion sort.
RECURSIVE insert_by_date(_, _)
insert_by_date(sorted, r) ==
  IF sorted = <<>> THEN <<r>>
  ELSE IF r.date.day < Head(sorted).date.day THEN <<r>> \o sorted
  ELSE <<Head(sorted)>> \o insert_by_date(Tail(sorted), r)

RECURSIVE sort_values(_)
sort_values(rows) ==
  IF rows = <<>> THEN <<>>
  ELSE insert_by_date(sort_values(SubSeq(rows, 1, Len(rows) - 1)), Last(rows))

\* DataStorage.load_history: None for a missing file; the date column, when
\* there is one, converted to Timestamps and the rows sorted by it.
load_history(csv) ==
  IF csv = NoCsv THEN None
  ELSE IF csv.hasDate
       THEN Frame(TRUE, sort_values([i \in 1..Len(csv.rows) |->
                    [csv.rows[i] EXCEPT !.date = to_datetime(@)]]))
       ELSE csv

\* Faulty variant: df.head(n), the oldest rows.
head_rows(rows, n) ==
  IF Len(rows) <= n THEN rows ELSE SubSeq(rows, 1, n)

\* df.tail(n)
tail(rows, n) ==
  IF Len(rows) <= n THEN rows ELSE SubSeq(rows, Len(rows) - n + 1, Len(rows))

(***************************************************************************)
(* Strategy executables: what exec() of the stored code yields.             *)
(***************************************************************************)
\* breakout   signal 1 on a bar closing above the previous bar, -1 below, 0 else
\* raises     generate_signals raises on every input
\* dropfirst  breakout computed on df.iloc[1:]: a Series one bar short
\* scalar     returns the last breakout value itself, not a Series
MonitorCodes == {"breakout", "raises", "dropfirst", "scalar"}

sign(x) == IF x > 0 THEN 1 ELSE IF x < 0 THEN -1 ELSE 0

breakout(rows) ==
  [t \in 1..Len(rows) |->
     IF t = 1 THEN 0 ELSE sign(rows[t].close - rows[t - 1].close)]

\* Stored code that yields no function.
\*   syntax_error  exec raises (SyntaxError, or an exception of the module body)
\*   no_function   exec runs, but the code defines no generate_signals
BrokenCodes == {"syntax_error", "no_function"}

\* StrategyGenerator.compile_strategy: the callable, or None.  Both the
\* except branch and the missing-name branch return None.
compile_strategy(code) ==
  IF code \in BrokenCodes THEN None ELSE [func |-> code]

\* The call strategy_func(eval_df): an exception, a pandas Series or
\* some other value.
strategy_func(func, eval_df) ==
  CASE func = "raises"    -> [kind |-> "raise", values |-> <<>>]
    [] func = "breakout"  -> [kind |-> "Series", values |-> breakout(eval_df.rows)]
    [] func = "dropfirst" -> [kind |-> "Series", values |-> Tail(breakout(eval_df.rows))]
    [] OTHER              -> [kind |-> "other", values |-> <<Last(breakout(eval_df.rows))>>]

(***************************************************************************)
(* Real-time monitor: src/src/quant/monitor.py                              *)
(***************************************************************************)
\* --stocks, in the order given on the command line
stock_list == <<"600519", "000858">>

\* One row of ak.stock_zh_a_spot_em(): code, latest price, open, high, low,
\* volume.  A suspended stock is quoted at price 0.
Quote(price, open, high, low, volume) ==
  [price |-> price, open |-> open, high |-> high, low |-> low, volume |-> volume]

Quotes == { Quote(12, 11, 13, 10, 500),
            Quote(8, 9, 9, 7, 300),
            Quote(0, 0, 0, 0, 0) }

SpotRows == { [code |-> c, quote |-> q] : c \in Stocks, q \in Quotes }

\* The market frames the provider can return: rows in any order, a code at
\* most once.
SpotFrames ==
  { <<>> } \cup { <<r>> : r \in SpotRows }
  \cup { <<p[1], p[2]>> : p \in { q \in SpotRows \X SpotRows : q[1].code # q[2].code } }

\* What ak.stock_zh_a_spot_em() does in one tick: raises, or returns a frame.
FetchOutcomes ==
  { [fails |-> TRUE, spot_df |-> <<>>] }
  \cup { [fails |-> FALSE, spot_df |-> f] : f \in SpotFrames }

\* dict[key] = value on an insertion-ordered dict kept as a sequence of entries
RECURSIVE dict_set(_, _, _)
dict_set(d, key, value) ==
  IF d = <<>> THEN <<[key |-> key, value |-> value]>>
  ELSE IF Head(d).key = key THEN <<[key |-> key, value |-> value]>> \o Tail(d)
  ELSE <<Head(d)>> \o dict_set(Tail(d), key, value)

\* RealTimeMonitor._fetch_realtime_snapshot: the dict code -> snapshot, in
\* the provider's row order; {} when the provider call raises.
RECURSIVE build_data_map(_, _, _)
build_data_map(rows, target_codes, today_str) ==
  IF rows = <<>> THEN <<>>
  ELSE LET row == Head(rows)
           rest == build_data_map(Tail(rows), target_codes, today_str)
       IN IF row.code \notin target_codes THEN rest
          ELSE IF row.quote.price <= 0 THEN rest
          ELSE <<[key |-> row.code,
                  value |-> Row(today_str, row.quote.open, row.quote.high,
                                row.quote.low, row.quote.price, row.quote.volume)]>>
               \o rest

\* Faulty variant: one provider call per instrument.
snapshot_requests_per_instrument(codes) == Cardinality(codes)

\* The provider calls _fetch_realtime_snapshot makes for the codes it is
\* given: ak.stock_zh_a_spot_em() once, the whole market in one frame,
\* which is then filtered by the codes.
snapshot_requests(codes) == 1

fetch_realtime_snapshot(codes, spot_df, fetch_fails, day) ==
  IF fetch_fails THEN <<>>
  ELSE build_data_map(spot_df, codes, DateStr(day))

\* Faulty variant: the first strategy that does not compile ends the loop.
RECURSIVE compile_all_stops_at_failure(_)
compile_all_stops_at_failure(active) ==
  IF active = <<>> THEN <<>>
  ELSE LET func == compile_strategy(Head(active).code)
       IN IF func = None THEN <<>>
          ELSE LET rest == compile_all_stops_at_failure(Tail(active))
               IN IF \E k \in 1..Len(rest) : rest[k].key = Head(active).id
                  THEN rest
                  ELSE <<[key |-> Head(active).id, value |-> func.func]>> \o rest

\* load_context, step 1: compile the active strategies of the monitor's own
\* manager into the dict id -> function.
RECURSIVE compile_all(_)
compile_all(active) ==
  IF active = <<>> THEN <<>>
  ELSE LET s == Last(active)
           before == compile_all(SubSeq(active, 1, Len(active) - 1))
           func == compile_strategy(s.code)
       IN IF func = None THEN before ELSE dict_set(before, s.id, func.func)

\* load_context, step 2: the window of every listed stock that has history.
DefaultLookback == 100

\* Faulty variant: the first stock without history ends the loop.
RECURSIVE load_windows_of_stops_at_missing(_, _, _)
load_windows_of_stops_at_missing(stocks, csvs, days_lookback) ==
  IF stocks = <<>> THEN <<>>
  ELSE LET df == load_history(csvs[Head(stocks)])
       IN IF df = None THEN <<>>
          ELSE IF df.rows = <<>> THEN <<>>
          ELSE (Head(stocks) :> Frame(df.hasDate, tail(df.rows, days_lookback)))
               @@ load_windows_of_stops_at_missing(Tail(stocks), csvs, days_lookback)

\* The loop "for stock in self.stock_list" over a list of stocks.
load_windows_of(stocks, csvs, days_lookback) ==
  LET loaded == { c \in { stocks[i] : i \in 1..Len(stocks) } :
                    LET df == load_history(csvs[c])
                    IN df # None /\ df.rows # <<>> }
  IN [c \in loaded |->
        LET df == load_history(csvs[c])
        IN Frame(df.hasDate, tail(df.rows, days_lookback))]

load_windows(csvs, days_lookback) == load_windows_of(stock_list, csvs, days_lookback)

\* run_once lines 91-116: the evaluation frame for one stock.  hist_df is
\* the cached frame as the merge leaves it.
update_last_row(rows, snapshot) ==
  [rows EXCEPT ![Len(rows)] =
     [@ EXCEPT !.open = snapshot.open, !.high = snapshot.high,
               !.low = snapshot.low, !.close = snapshot.close,
               !.volume = snapshot.volume]]

\* Faulty variants of the merge, each a slip the code could have made.
\* A later date refreshes the last row instead of adding one.
merge_window_never_appends(hist_df, snapshot) ==
  IF ~hist_df.hasDate
  THEN [raised |-> TRUE, eval_df |-> hist_df, hist_df |-> hist_df]
  ELSE [raised |-> FALSE, hist_df |-> hist_df,
        eval_df |->
          IF to_datetime(snapshot.date).day >= to_datetime(Last(hist_df.rows).date).day
          THEN Frame(TRUE, update_last_row(hist_df.rows, snapshot))
          ELSE hist_df]

\* >= where the code has >: the same date is appended a second time.
merge_window_appends_same_day(hist_df, snapshot) ==
  IF ~hist_df.hasDate
  THEN [raised |-> TRUE, eval_df |-> hist_df, hist_df |-> hist_df]
  ELSE [raised |-> FALSE, hist_df |-> hist_df,
        eval_df |->
          IF to_datetime(snapshot.date).day >= to_datetime(Last(hist_df.rows).date).day
          THEN Frame(TRUE, Append(hist_df.rows, snapshot))
          ELSE hist_df]

\* No else branch: an older snapshot still overwrites the last row.
merge_window_applies_stale(hist_df, snapshot) ==
  IF ~hist_df.hasDate
  THEN [raised |-> TRUE, eval_df |-> hist_df, hist_df |-> hist_df]
  ELSE [raised |-> FALSE, hist_df |-> hist_df,
        eval_df |->
          IF to_datetime(snapshot.date).day > to_datetime(Last(hist_df.rows).date).day
          THEN Frame(TRUE, Append(hist_df.rows, snapshot))
          ELSE Frame(TRUE, update_last_row(hist_df.rows, snapshot))]

\* eval_df = hist_df without .copy(): the refresh writes into the cached frame.
merge_window_in_place(hist_df, snapshot) ==
  IF ~hist_df.hasDate
  THEN [raised |-> TRUE, eval_df |-> hist_df, hist_df |-> hist_df]
  ELSE LET merged ==
             IF to_datetime(snapshot.date).day > to_datetime(Last(hist_df.rows).date).day
             THEN Frame(TRUE, Append(hist_df.rows, snapshot))
             ELSE IF to_datetime(snapshot.date).day = to_datetime(Last(hist_df.rows).date).day
             THEN Frame(TRUE, update_last_row(hist_df.rows, snapshot))
             ELSE hist_df
       IN [raised |-> FALSE,
           hist_df |-> IF Len(merged.rows) = Len(hist_df.rows) THEN merged ELSE hist_df,
           eval_df |-> merged]

\* pd.concat([new_row, hist_df]): the snapshot row goes in front.
merge_window_prepends(hist_df, snapshot) ==
  IF ~hist_df.hasDate
  THEN [raised |-> TRUE, eval_df |-> hist_df, hist_df |-> hist_df]
  ELSE [raised |-> FALSE, hist_df |-> hist_df,
        eval_df |->
          IF to_datetime(snapshot.date).day > to_datetime(Last(hist_df.rows).date).day
          THEN Frame(TRUE, <<snapshot>> \o hist_df.rows)
          ELSE IF to_datetime(snapshot.date).day = to_datetime(Last(hist_df.rows).date).day
          THEN Frame(TRUE, update_last_row(hist_df.rows, snapshot))
          ELSE hist_df]

merge_window(hist_df, snapshot) ==
  IF ~hist_df.hasDate
  THEN [raised |-> TRUE, eval_df |-> hist_df, hist_df |-> hist_df]  \* KeyError: 'date'
  ELSE LET snapshot_date == to_datetime(snapshot.date)
           last_hist_date == to_datetime(Last(hist_df.rows).date)
       IN [raised |-> FALSE,
           hist_df |-> hist_df,
           eval_df |->
             IF snapshot_date.day > last_hist_date.day
             THEN Frame(TRUE, Append(hist_df.rows, snapshot))
             ELSE IF snapshot_date.day = last_hist_date.day
             THEN Frame(TRUE, update_last_row(hist_df.rows, snapshot))
             ELSE hist_df]

\* run_once lines 119-139 for one (stock, strategy) pair: the alerts it adds.
strategy_alerts(entry, stock_code, snapshot, eval_df, strats) ==
  LET signals == strategy_func(entry.value, eval_df)
  IN IF signals.kind = "raise" THEN <<>>
     ELSE IF signals.kind = "Series" /\ signals.values # <<>>
     THEN IF Last(signals.values) = 1
          THEN LET strategy_info == get_strategy(strats, entry.key)
               IN IF strategy_info = None THEN <<>>      \* TypeError, caught
                  ELSE <<[stock |-> stock_code, price |-> snapshot.close,
                          strategy |-> strategy_info.name, signal |-> "BUY"]>>
          ELSE <<>>
     ELSE <<>>

\* Faulty variant: the try wraps the whole for loop, so the first strategy
\* that raises ends the evaluation of the stock.
RECURSIVE evaluate_strategies_try_around_loop(_, _, _, _, _)
evaluate_strategies_try_around_loop(compiled, stock_code, snapshot, eval_df, strats) ==
  IF compiled = <<>> THEN <<>>
  ELSE IF strategy_func(Head(compiled).value, eval_df).kind = "raise" THEN <<>>
  ELSE strategy_alerts(Head(compiled), stock_code, snapshot, eval_df, strats)
       \o evaluate_strategies_try_around_loop(Tail(compiled), stock_code, snapshot,
                                              eval_df, strats)

RECURSIVE evaluate_strategies(_, _, _, _, _)
evaluate_strategies(compiled, stock_code, snapshot, eval_df, strats) ==
  IF compiled = <<>> THEN <<>>
  ELSE strategy_alerts(Head(compiled), stock_code, snapshot, eval_df, strats)
       \o evaluate_strategies(Tail(compiled), stock_code, snapshot, eval_df, strats)

\* The loop over realtime_data.items(): the alerts collected, the frames
\* evaluated, the cache as left, and whether an exception escaped.
RECURSIVE scan(_, _, _, _)
scan(realtime_data, compiled, cache, strats) ==
  IF realtime_data = <<>>
  THEN [raised |-> FALSE, alerts |-> <<>>, evals |-> <<>>, cache |-> cache]
  ELSE LET stock_code == Head(realtime_data).key
           snapshot == Head(realtime_data).value
       IN IF stock_code \notin DOMAIN cache
          THEN scan(Tail(realtime_data), compiled, cache, strats)
          ELSE LET m == merge_window(cache[stock_code], snapshot)
               IN IF m.raised
                  THEN [raised |-> TRUE, alerts |-> <<>>, evals |-> <<>>, cache |-> cache]
                  ELSE LET rest == scan(Tail(realtime_data), compiled,
                                        [cache EXCEPT ![stock_code] = m.hist_df], strats)
                       IN [raised |-> rest.raised,
                           alerts |-> evaluate_strategies(compiled, stock_code, snapshot,
                                                          m.eval_df, strats)
                                      \o rest.alerts,
                           evals |-> <<[stock |-> stock_code, snapshot |-> snapshot,
                                        hist_df |-> cache[stock_code],
                                        eval_df |-> m.eval_df]>> \o rest.evals,
                           cache |-> rest.cache]

\* RealTimeMonitor._send_alerts: the console block is printed, then the
\* e-mail goes out when notifier.is_available() says so.
send_alerts(alerts, available) ==
  [console |-> TRUE,
   is_available |-> IF available THEN "True" ELSE "False",
   emailed |-> available]

\* Not called: nothing printed, the notifier not asked, nothing mailed.
NoDispatch == [console |-> FALSE, is_available |-> "not asked", emailed |-> FALSE]

NoTick == [status |-> "none", fetch_failed |-> FALSE, realtime_data |-> <<>>,
           requests |-> 0, alerts |-> <<>>, evals |-> <<>>, console |-> FALSE,
           is_available |-> "not asked", emailed |-> FALSE]

\* Faulty variant: _fetch_realtime_snapshot without its try/except, so a
\* failing provider call escapes run_once.
run_once_fetch_unguarded(compiled, cache, strats, spot_df, fetch_fails, day, available) ==
  IF compiled = <<>> \/ DOMAIN cache = {}
  THEN [status |-> "returned", fetch_failed |-> FALSE, realtime_data |-> <<>>,
        requests |-> 0, alerts |-> <<>>, evals |-> <<>>, console |-> FALSE,
        is_available |-> "not asked", emailed |-> FALSE, cache |-> cache]
  ELSE IF fetch_fails
  THEN [status |-> "raised", fetch_failed |-> TRUE, realtime_data |-> <<>>,
        requests |-> snapshot_requests(DOMAIN cache),
        alerts |-> <<>>, evals |-> <<>>, console |-> FALSE,
        is_available |-> "not asked", emailed |-> FALSE, cache |-> cache]
  ELSE LET realtime_data == fetch_realtime_snapshot(DOMAIN cache, spot_df, fetch_fails, day)
           r == scan(realtime_data, compiled, cache, strats)
           d == IF ~r.raised /\ r.alerts # <<>>
                THEN send_alerts(r.alerts, available) ELSE NoDispatch
       IN [status |-> IF r.raised THEN "raised" ELSE "returned",
           fetch_failed |-> fetch_fails,
           realtime_data |-> realtime_data,
           requests |-> snapshot_requests(DOMAIN cache),
           alerts |-> r.alerts,
           evals |-> r.evals,
           console |-> d.console,
           is_available |-> d.is_available,
           emailed |-> d.emailed,
           cache |-> r.cache]

\* RealTimeMonitor.run_once: what one tick does and leaves behind.
\* _send_alerts is reached only when the loop has ended without an
\* exception and alerts is not empty.
run_once(compiled, cache, strats, spot_df, fetch_fails, day, available) ==
  IF compiled = <<>> \/ DOMAIN cache = {}
  THEN [status |-> "returned", fetch_failed |-> FALSE, realtime_data |-> <<>>,
        requests |-> 0, alerts |-> <<>>, evals |-> <<>>, console |-> FALSE,
        is_available |-> "not asked", emailed |-> FALSE, cache |-> cache]
  ELSE LET realtime_data == fetch_realtime_snapshot(DOMAIN cache, spot_df, fetch_fails, day)
           r == scan(realtime_data, compiled, cache, strats)
           d == IF ~r.raised /\ r.alerts # <<>>
                THEN send_alerts(r.alerts, available) ELSE NoDispatch
       IN [status |-> IF r.raised THEN "raised" ELSE "returned",
           fetch_failed |-> fetch_fails,
           realtime_data |-> realtime_data,
           requests |-> snapshot_requests(DOMAIN cache),
           alerts |-> r.alerts,
           evals |-> r.evals,
           console |-> d.console,
           is_available |-> d.is_available,
           emailed |-> d.emailed,
           cache |-> r.cache]

\* The part of run_once's outcome that the tick variable records.
tick_of(r) ==
  [status |-> r.status, fetch_failed |-> r.fetch_failed,
   realtime_data |-> r.realtime_data, requests |-> r.requests,
   alerts |-> r.alerts, evals |-> r.evals,
   console |-> r.console, is_available |-> r.is_available, emailed |-> r.emailed]

(***************************************************************************)
(* Monitor mode: src/quant_main.py run_monitor_mode                         *)
(***************************************************************************)
\* monitor = RealTimeMonitor(stock_list=stocks)
Construct ==
  /\ pc = "start"
  /\ strategies' = ("monitor" :> load_strategies(strategy_file)) @@ strategies
  /\ pc' = "constructed"
  /\ UNCHANGED <<backtest, strategy_file, last, stock_history, compiled_strategies,
                 history_cache, today, tick>>

\* monitor.load_context()
LoadContext ==
  /\ pc = "constructed"
  /\ compiled_strategies' = compile_all(get_active_strategies(strategies["monitor"]))
  /\ history_cache' = load_windows(stock_history, DefaultLookback)
  /\ pc' = "polling"
  /\ UNCHANGED <<backtest, strategy_file, strategies, last, stock_history, today, tick>>

\* Faulty variant: every tick re-reads the strategy file and recompiles
\* before it evaluates.
RunOnce_reloads_strategies ==
  /\ pc = "polling"
  /\ \E fetch \in FetchOutcomes, available \in BOOLEAN :
       LET strats == load_strategies(strategy_file)
           compiled == compile_all(get_active_strategies(strats))
           r == run_once(compiled, history_cache, strats,
                         fetch.spot_df, fetch.fails, today, available)
       IN /\ tick' = tick_of(r)
          /\ history_cache' = r.cache
          /\ pc' = IF r.status = "raised" THEN "crashed" ELSE "sleeping"
          /\ compiled_strategies' = compiled
          /\ strategies' = [strategies EXCEPT !["monitor"] = strats]
  /\ UNCHANGED <<backtest, strategy_file, last, stock_history, today>>

\* await monitor.run_once(); an exception other than KeyboardInterrupt
\* leaves the while loop and the function.
RunOnce ==
  /\ pc = "polling"
  /\ \E fetch \in FetchOutcomes, available \in BOOLEAN :
       LET r == run_once(compiled_strategies, history_cache, strategies["monitor"],
                         fetch.spot_df, fetch.fails, today, available)
       IN /\ tick' = tick_of(r)
          /\ history_cache' = r.cache
          /\ pc' = IF r.status = "raised" THEN "crashed" ELSE "sleeping"
  /\ UNCHANGED <<backtest, strategy_file, strategies, last, stock_history,
                 compiled_strategies, today>>

\* await asyncio.sleep(60): the date may change meanwhile.  The locals of
\* the finished run_once (snapshot, frames, alerts) are gone.
Sleep ==
  /\ pc = "sleeping"
  /\ \E d \in {today, today + 1} : d <= MaxDay /\ today' = d
  /\ pc' = "polling"
  /\ tick' = NoTick
  /\ UNCHANGED <<backtest, strategy_file, strategies, last, stock_history,
                 compiled_strategies, history_cache>>

\* Ctrl+C during the sleep: KeyboardInterrupt is caught, monitoring stops.
Interrupt ==
  /\ pc = "sleeping"
  /\ pc' = "stopped"
  /\ tick' = NoTick
  /\ UNCHANGED <<backtest, strategy_file, strategies, last, stock_history,
                 compiled_strategies, history_cache, today>>

\* Strategy ids as uuid4 hands them out.
IdPool == <<"1a2b3c4d", "9f8e7d6c", "0badc0de", "5eed5eed">>

\* The strategy files monitor mode can start from: up to MaxStrategies
\* active records, each with the code of one executable.
StrategyLists ==
  UNION { [1..n -> MonitorCodes] : n \in 0..MaxStrategies }

stored(codes) ==
  [i \in 1..Len(codes) |->
     [id |-> IdPool[i], name |-> codes[i], description |-> "generated",
      code |-> codes[i], status |-> "active"]]

Init ==
  /\ strategy_file \in { IF codes = <<>> THEN NoFile
                         ELSE [state |-> "ok", recs |-> stored(codes)] :
                         codes \in StrategyLists }
  /\ strategies = <<>>
  /\ last = NoOp
  /\ stock_history \in [Stocks -> CsvFiles]
  /\ compiled_strategies = <<>>
  /\ history_cache = <<>>
  /\ today = 1
  /\ pc = "start"
  /\ tick = NoTick
  /\ backtest = NoBacktest

Next == Construct \/ LoadContext \/ RunOnce \/ Sleep \/ Interrupt

Spec == Init /\ [][Next]_vars

(***************************************************************************)
(* The strategy store on its own: one StrategyManager and a client that     *)
(* calls add_strategy, delete_strategy and toggle_strategy in any order.    *)
(***************************************************************************)
StoreInit ==
  /\ strategy_file = NoFile
  /\ strategies = ("client" :> load_strategies(NoFile))
  /\ last = NoOp
  /\ stock_history = [c \in Stocks |-> NoCsv]
  /\ compiled_strategies = <<>>
  /\ history_cache = <<>>
  /\ today = 1
  /\ pc = "serving"
  /\ tick = NoTick
  /\ backtest = NoBacktest

StoreNext == AddStrategy \/ DeleteStrategy \/ ToggleStrategy

SpecStore == StoreInit /\ [][StoreNext]_vars

(***************************************************************************)
(* Properties of the monitor (checked under Spec)                           *)
(***************************************************************************)
ticked == tick.status # "none"

\* The compiled strategies without those that raise on every input.
without_raising(compiled) == SelectSeq(compiled, LAMBDA e : e.value # "raises")

position(compiled, func) ==
  IF \E k \in 1..Len(compiled) : compiled[k].value = func
  THEN CHOOSE k \in 1..Len(compiled) : compiled[k].value = func
  ELSE 0

\* C1: Monitor Loop isolation.  In every tick the alerts collected are
\* exactly the alerts the same tick (same cache, same snapshot, same order)
\* collects when the strategies that raise on every input are absent from
\* the compiled set: a raising strategy costs its own (stock, strategy)
\* pair and nothing else.
C1_Isolation ==
  ticked =>
    tick.alerts = scan(tick.realtime_data, without_raising(compiled_strategies),
                       history_cache, strategies["monitor"]).alerts

\* A tick over two stocks in which a raising strategy is evaluated before
\* a well-behaved one, and the well-behaved one alerts.
C1_Witness ==
  /\ tick.status = "returned"
  /\ Len(tick.evals) = 2
  /\ position(compiled_strategies, "raises") = 1
  /\ position(compiled_strategies, "breakout") = 2
  /\ \E i \in 1..Len(tick.alerts) : tick.alerts[i].strategy = "breakout"

\* C2: the monitor loop never terminates due to a single instrument or
\* strategy failure: run_once returns in every tick (having merged and
\* evaluated every stock of the snapshot) and the loop goes on to sleep
\* and to the next tick.
C2_LoopSurvivesFailures ==
  /\ pc # "crashed"
  /\ tick.status # "raised"
  /\ ticked => Len(tick.evals) = Len(tick.realtime_data)

after(e) == e.snapshot.date.day > Last(e.hist_df.rows).date.day
same_day(e) == e.snapshot.date.day = Last(e.hist_df.rows).date.day
before(e) == e.snapshot.date.day < Last(e.hist_df.rows).date.day

\* C3: Window Merger, append case.  A live bar dated after the window's
\* last date gives a merged window one bar longer, whose last bar is the
\* live bar and whose earlier bars are the window's bars in order.
C3_Append ==
  \A i \in 1..Len(tick.evals) :
    LET e == tick.evals[i]
        n == Len(e.hist_df.rows)
    IN after(e) =>
         /\ Len(e.eval_df.rows) = n + 1
         /\ Last(e.eval_df.rows) = e.snapshot
         /\ SubSeq(e.eval_df.rows, 1, n) = e.hist_df.rows

C3_Witness ==
  \E i \in 1..Len(tick.evals) :
    /\ after(tick.evals[i])
    /\ Len(tick.evals[i].eval_df.rows) = 3

\* C4: Window Merger, intraday refresh.  A live bar dated as the window's
\* last date D gives a merged window of the same length whose last bar
\* keeps date D and carries the live open/high/low/close/volume; D occurs
\* once and the bars before the last are unchanged.
C4_Refresh ==
  \A i \in 1..Len(tick.evals) :
    LET e == tick.evals[i]
        n == Len(e.hist_df.rows)
        merged == e.eval_df.rows
    IN same_day(e) =>
         /\ Len(merged) = n
         /\ merged[n].date = e.hist_df.rows[n].date
         /\ merged[n].open = e.snapshot.open
         /\ merged[n].high = e.snapshot.high
         /\ merged[n].low = e.snapshot.low
         /\ merged[n].close = e.snapshot.close
         /\ merged[n].volume = e.snapshot.volume
         /\ Cardinality({ j \in 1..Len(merged) :
                            merged[j].date.day = e.snapshot.date.day }) = 1
         /\ SubSeq(merged, 1, n - 1) = SubSeq(e.hist_df.rows, 1, n - 1)

C4_Witness ==
  \E i \in 1..Len(tick.evals) :
    /\ same_day(tick.evals[i])
    /\ Last(tick.evals[i].eval_df.rows).close # Last(tick.evals[i].hist_df.rows).close

\* C5: Window Merger, stale case.  A live bar dated before the window's
\* last date leaves the merged window identical to the input window.
C5_Stale ==
  \A i \in 1..Len(tick.evals) :
    before(tick.evals[i]) => tick.evals[i].eval_df = tick.evals[i].hist_df

C5_Witness ==
  \E i \in 1..Len(tick.evals) :
    /\ before(tick.evals[i])
    /\ Last(tick.evals[i].hist_df.rows).close # tick.evals[i].snapshot.close

\* C6: the merge works on a copy.  From load_context on, no step (a tick
\* in any of the three merge cases, the sleep, the interrupt) changes the
\* cached windows or the history files.
C6_CacheAndDiskUntouched ==
  [][pc \notin {"start", "constructed"} =>
       /\ history_cache' = history_cache
       /\ stock_history' = stock_history]_vars

\* A tick has refreshed the last bar of a merged window, and the cache
\* still holds the window as loaded.
C6_Witness ==
  \E i \in 1..Len(tick.evals) :
    /\ same_day(tick.evals[i])
    /\ tick.evals[i].eval_df # tick.evals[i].hist_df
    /\ history_cache[tick.evals[i].stock] = tick.evals[i].hist_df
    /\ history_cache = load_windows(stock_history, DefaultLookback)

\* The snapshot entry of a stock in a tick, None without one.
snapshot_of(realtime_data, c) ==
  IF \E k \in 1..Len(realtime_data) : realtime_data[k].key = c
  THEN (CHOOSE e \in { realtime_data[k] : k \in 1..Len(realtime_data) } : e.key = c).value
  ELSE None

count(seq, Test(_)) == Cardinality({ k \in 1..Len(seq) : Test(seq[k]) })

\* The final signal of a compiled strategy on the merged window of stock c
\* is 1: c has a cached window and a snapshot entry, the merge yields a
\* window, and the strategy returns a non-empty series ending in 1.
final_signal_is_1(entry, c) ==
  /\ c \in DOMAIN history_cache
  /\ snapshot_of(tick.realtime_data, c) # None
  /\ LET m == merge_window(history_cache[c], snapshot_of(tick.realtime_data, c))
         signals == strategy_func(entry.value, m.eval_df)
     IN /\ ~m.raised
        /\ signals.kind = "Series"
        /\ signals.values # <<>>
        /\ Last(signals.values) = 1

name_of(entry) == get_strategy(strategies["monitor"], entry.key).name

\* C7: level trigger.  In every tick, for every stock and every strategy
\* name, the alerts carrying them are as many as the compiled strategies
\* of that name whose final signal on the stock's merged window is 1
\* (none for 0 or -1, none without a cached window or a snapshot entry);
\* nothing of an earlier tick enters.
C7_LevelTrigger ==
  ticked =>
    \A c \in Stocks, n \in MonitorCodes :
      count(tick.alerts, LAMBDA a : a.stock = c /\ a.strategy = n)
      = count(compiled_strategies,
              LAMBDA e : name_of(e) = n /\ final_signal_is_1(e, c))

\* C8: a pair whose executable returns something that is not a series of
\* the evaluation window's length contributes no alert in the tick.
C8_MalformedSeriesNoAlert ==
  \A i \in 1..Len(tick.evals), k \in 1..Len(compiled_strategies) :
    LET e == tick.evals[i]
        signals == strategy_func(compiled_strategies[k].value, e.eval_df)
    IN (signals.kind # "Series" \/ Len(signals.values) # Len(e.eval_df.rows))
       => count(tick.alerts,
                LAMBDA a : a.stock = e.stock
                           /\ a.strategy = name_of(compiled_strategies[k])) = 0

(***************************************************************************)
(* Properties of the strategy store (checked under SpecStore)               *)
(***************************************************************************)
\* C9: a mutating call (add, delete, toggle) that reports success has
\* written the list to the store: the file holds exactly the manager's
\* list.  A failed write surfaces as an exception, never as success.
C9_WriteFailurePropagates ==
  (last.op \in {"add", "delete", "toggle"} /\ last.ok) =>
    /\ strategy_file.state = "ok"
    /\ strategy_file.recs = strategies[last.handle]

\* C10: round trip.  After add_strategy returns an id, get_strategy on it
\* yields a record with the name, description and code given and status
\* "active"; after delete_strategy(id), get_strategy(id) is None.
C10_RoundTrip ==
  /\ (last.op = "add" /\ last.ok) =>
       LET r == get_strategy(strategies[last.handle], last.id)
       IN /\ r # None
          /\ r.name = last.name
          /\ r.description = last.description
          /\ r.code = last.code
          /\ r.status = "active"
  /\ (last.op = "delete" /\ ~last.raised) =>
       get_strategy(strategies[last.handle], last.id) = None

\* C11: strategy ids are unique.  After any sequence of add_strategy,
\* delete_strategy and toggle_strategy calls no two records of the
\* manager's list carry the same id.
C11_UniqueIds ==
  \A h \in DOMAIN strategies :
    \A i, j \in 1..Len(strategies[h]) :
      strategies[h][i].id = strategies[h][j].id => i = j

(***************************************************************************)
(* The API process: src/api/v1/endpoints/quant.py.  Importing the module    *)
(* builds monitor_instance (a RealTimeMonitor without stocks, with its own  *)
(* StrategyManager) and strategy_mgr (a second StrategyManager); the        *)
(* endpoints then serve requests one at a time.                             *)
(***************************************************************************)
\* data/strategies.json when the API process starts.
ApiFiles ==
  { NoFile,
    [state |-> "ok",
     recs |-> <<new_strategy("1a2b3c4d", "ma", "MA5 crosses MA20", "breakout")>>] }

ApiInit ==
  /\ strategy_file \in ApiFiles
  /\ strategies = <<>>
  /\ last = NoOp
  /\ stock_history = [c \in Stocks |-> NoCsv]
  /\ compiled_strategies = <<>>
  /\ history_cache = <<>>
  /\ today = 1
  /\ pc = "import"
  /\ tick = NoTick
  /\ backtest = NoBacktest

\* monitor_instance = RealTimeMonitor(); strategy_mgr = StrategyManager()
ApiImport ==
  /\ pc = "import"
  /\ strategies' = ("monitor" :> load_strategies(strategy_file))
                   @@ ("api" :> load_strategies(strategy_file))
  /\ pc' = "serving"
  /\ UNCHANGED <<backtest, strategy_file, last, stock_history, compiled_strategies,
                 history_cache, today, tick>>

\* POST /strategies
create_strategy ==
  /\ pc = "serving"
  /\ \E i \in Ids, n \in Names, d \in Descriptions, c \in StoreCodes,
        o \in SaveOutcomes :
       add_strategy("api", i, n, d, c, o)
  /\ UNCHANGED <<monitorVars, backtest>>

\* DELETE /strategies/{strategy_id}
delete_strategy_endpoint ==
  /\ pc = "serving"
  /\ \E i \in Ids, o \in SaveOutcomes : delete_strategy("api", i, o)
  /\ UNCHANGED <<monitorVars, backtest>>

\* StrategyUpdateRequest.status is declared str: the request body may carry
\* any text, "paused" standing for one that names no status.
RequestStatuses == Statuses \cup {"paused"}

\* PATCH /strategies/{strategy_id}/status: the toggle on strategy_mgr and,
\* when it reports success, monitor_instance.load_context(), which compiles
\* from monitor_instance.strategy_mgr and loads no window (stock_list = []).
update_strategy_status ==
  /\ pc = "serving"
  /\ \E i \in Ids, st \in RequestStatuses, o \in SaveOutcomes :
       toggle_strategy("api", i, st, o)
  /\ IF last'.ok
     THEN /\ compiled_strategies' =
               compile_all(get_active_strategies(strategies["monitor"]))
          /\ history_cache' = <<>>
     ELSE UNCHANGED <<compiled_strategies, history_cache>>
  /\ UNCHANGED <<stock_history, today, pc, tick, backtest>>

ApiNext ==
  ApiImport \/ create_strategy \/ delete_strategy_endpoint \/ update_strategy_status

SpecApi == ApiInit /\ [][ApiNext]_vars

\* C12: a context reload makes a status toggle take effect.  After the
\* status endpoint has toggled a strategy and load_context has run, the
\* monitor's compiled-strategy cache holds exactly the strategies that are
\* active in the strategy store and compile.
C12_ReloadAppliesToggle ==
  (pc = "serving" /\ last.op = "toggle" /\ last.ok) =>
    compiled_strategies = compile_all(get_active_strategies(strategies["api"]))

(***************************************************************************)
(* Monitor mode next to a strategy client.  While run_monitor_mode polls,   *)
(* another process (the strategy menu of quant_main.run_backtest_ui, or the *)
(* API) works on the same strategies.json through its own StrategyManager.  *)
(***************************************************************************)
LiveFile ==
  [state |-> "ok",
   recs |-> <<new_strategy("1a2b3c4d", "ma", "MA5 crosses MA20", "breakout")>>]

\* 600519 has two rising days of history on disk, 000858 none.
LiveHistory ==
  [c \in Stocks |->
     IF c = "600519"
     THEN Frame(TRUE, <<Row(DateStr(2), 10, 12, 10, 11, 120),
                        Row(DateStr(1), 10, 11, 9, 10, 100)>>)
     ELSE NoCsv]

\* The monitor has been constructed and load_context has run; the client
\* has opened the same file.
LiveInit ==
  /\ strategy_file = LiveFile
  /\ strategies = ("monitor" :> load_strategies(LiveFile))
                  @@ ("client" :> load_strategies(LiveFile))
  /\ last = NoOp
  /\ stock_history = LiveHistory
  /\ compiled_strategies = compile_all(get_active_strategies(load_strategies(LiveFile)))
  /\ history_cache = load_windows(LiveHistory, DefaultLookback)
  /\ today = 1
  /\ pc = "polling"
  /\ tick = NoTick
  /\ backtest = NoBacktest

\* The client's calls: manager.add_strategy, manager.delete_strategy,
\* strategy_mgr.toggle_strategy.  Every write reaches the file here; what a
\* failed write does is the subject of SpecStore.
ClientAdd ==
  /\ \E i \in Ids, d \in Descriptions, c \in StoreCodes :
       add_strategy("client", i, "rsi", d, c, "ok")
  /\ UNCHANGED <<monitorVars, backtest>>

ClientDelete ==
  /\ \E i \in Ids : delete_strategy("client", i, "ok")
  /\ UNCHANGED <<monitorVars, backtest>>

ClientToggle ==
  /\ \E i \in Ids, st \in Statuses : toggle_strategy("client", i, st, "ok")
  /\ UNCHANGED <<monitorVars, backtest>>

LiveNext ==
  \/ RunOnce \/ Sleep \/ Interrupt
  \/ ClientAdd \/ ClientDelete \/ ClientToggle

SpecLive == LiveInit /\ [][LiveNext]_vars

\* C13: strategies added, deleted or toggled after load_context do not take
\* effect until the context is reloaded.  No step after load_context (a
\* store operation of the client, a tick, the sleep) changes the
\* compiled-strategy cache, and the alerts of every tick are those of the
\* strategies compiled at load_context, whatever the store holds by then.
C13_NoEffectBeforeReload ==
  [][/\ compiled_strategies' = compiled_strategies
     /\ pc = "polling" =>
          tick'.alerts = scan(tick'.realtime_data, compiled_strategies,
                              history_cache, strategies["monitor"]).alerts]_vars

\* A tick alerts on a strategy that the client has meanwhile deleted from
\* the store or toggled to inactive; a strategy added meanwhile is active
\* in the store and not compiled.
C13_Witness ==
  /\ tick.alerts # <<>>
  /\ get_active_strategies(load_strategies(strategy_file)) # <<>>
  /\ \A i \in 1..Len(compiled_strategies) :
       LET s == get_strategy(load_strategies(strategy_file), compiled_strategies[i].key)
       IN s = None \/ s.status = "inactive"

(***************************************************************************)
(* Monitor mode over strategy files that hold code which does not compile.  *)
(***************************************************************************)
CompileCodes == {"breakout"} \cup BrokenCodes

\* Up to MaxStrategies records, active or inactive, each named after its code.
CompileLists ==
  UNION { [1..n -> CompileCodes \X Statuses] : n \in 0..MaxStrategies }

CompileInit ==
  /\ strategy_file \in
       { IF l = <<>> THEN NoFile
         ELSE [state |-> "ok",
               recs |-> [i \in 1..Len(l) |->
                           [id |-> IdPool[i], name |-> l[i][1],
                            description |-> "generated", code |-> l[i][1],
                            status |-> l[i][2]]]] :
         l \in CompileLists }
  /\ strategies = <<>>
  /\ last = NoOp
  /\ stock_history = LiveHistory
  /\ compiled_strategies = <<>>
  /\ history_cache = <<>>
  /\ today = 1
  /\ pc = "start"
  /\ tick = NoTick
  /\ backtest = NoBacktest

SpecCompile == CompileInit /\ [][Next]_vars

keys(d) == { d[k].key : k \in 1..Len(d) }

\* C14: compile_strategy returns None for code that fails to execute or
\* defines no generate_signals, and load_context leaves exactly those
\* strategies out: after load_context the compiled set holds every active
\* strategy whose code compiles, under its id and in list order, and no
\* other; a strategy left out never alerts.
C14_CompileErrorExcluded ==
  pc \notin {"start", "constructed"} =>
    LET active == get_active_strategies(strategies["monitor"])
        good == SelectSeq(active, LAMBDA s : s.code \notin BrokenCodes)
    IN /\ \A c \in BrokenCodes : compile_strategy(c) = None
       /\ compiled_strategies =
            [k \in 1..Len(good) |-> [key |-> good[k].id, value |-> good[k].code]]
       /\ \A i \in 1..Len(tick.alerts) : tick.alerts[i].strategy \notin BrokenCodes

\* The first active strategy does not compile, the second does and has
\* alerted in a tick.
C14_Witness ==
  /\ pc = "sleeping"
  /\ Len(strategies["monitor"]) = 2
  /\ strategies["monitor"][1].code \in BrokenCodes
  /\ strategies["monitor"][1].status = "active"
  /\ keys(compiled_strategies) = {strategies["monitor"][2].id}
  /\ tick.alerts # <<>>

(***************************************************************************)
(* Properties of a tick's fetch and dispatch (checked under Spec)           *)
(***************************************************************************)
\* C15: a failing snapshot fetch.  When the provider call of a tick raises,
\* run_once returns without raising, the tick merges and evaluates nothing,
\* produces no alert and no dispatch, both caches are as load_context left
\* them, and the loop goes on to its sleep and to the next tick.
C15_FetchFailureIsQuiet ==
  tick.fetch_failed =>
    /\ tick.status = "returned"
    /\ tick.realtime_data = <<>>
    /\ tick.evals = <<>>
    /\ tick.alerts = <<>>
    /\ ~tick.console
    /\ ~tick.emailed
    /\ pc = "sleeping"
    /\ history_cache = load_windows(stock_history, DefaultLookback)
    /\ compiled_strategies = compile_all(get_active_strategies(strategies["monitor"]))

\* The fetch of a tick has failed with strategies compiled and windows cached.
C15_Witness ==
  /\ tick.fetch_failed
  /\ compiled_strategies # <<>>
  /\ DOMAIN history_cache = Stocks

\* C16: an empty batch performs no dispatch.  In a tick whose alert list is
\* empty neither the console block is printed nor an e-mail sent; in a
\* tick whose alert list is not empty the console block is printed and the
\* e-mail is sent exactly when notifier.is_available() returned True.
C16_DispatchIffAlerts ==
  ticked =>
    /\ tick.alerts = <<>> => (~tick.console /\ ~tick.emailed)
    /\ tick.alerts # <<>> =>
         (tick.console /\ (tick.emailed <=> tick.is_available = "True"))

(***************************************************************************)
(* Exact arithmetic for the backtester's float columns.  An integer of any  *)
(* size is its digits in base Base, least significant first, every digit in *)
(* -Base/2 .. Base/2 - 1 and the most significant one not 0; a number is a  *)
(* fraction num/den of two such integers with den > 0.                      *)
(***************************************************************************)
Base == 10000

Digit(a, i) == IF i <= Len(a) THEN a[i] ELSE 0

\* Carry propagation from digit i on.
RECURSIVE Carry(_, _, _)
Carry(a, i, c) ==
  IF i > Len(a) /\ c = 0 THEN <<>>
  ELSE LET d == Digit(a, i) + c
           r == ((d + Base \div 2) % Base) - Base \div 2
       IN <<r>> \o Carry(a, i + 1, (d - r) \div Base)

RECURSIVE Strip(_)
Strip(a) ==
  IF a = <<>> \/ Last(a) # 0 THEN a ELSE Strip(SubSeq(a, 1, Len(a) - 1))

Big(a) == Strip(Carry(a, 1, 0))
BigInt(n) == Big(<<n>>)

BigAdd(a, b) ==
  Big([i \in 1..(IF Len(a) > Len(b) THEN Len(a) ELSE Len(b)) |->
         Digit(a, i) + Digit(b, i)])

BigNeg(a) == Big([i \in 1..Len(a) |-> 0 - a[i]])
BigSub(a, b) == BigAdd(a, BigNeg(b))

\* Digit k of the product before carrying: the sum of a[i] * b[k + 1 - i].
RECURSIVE Conv(_, _, _, _)
Conv(a, b, k, i) ==
  IF i > Len(a) \/ i > k THEN 0
  ELSE (IF k + 1 - i <= Len(b) THEN a[i] * b[k + 1 - i] ELSE 0) + Conv(a, b, k, i + 1)

BigMul(a, b) ==
  IF a = <<>> \/ b = <<>> THEN <<>>
  ELSE Big([k \in 1..(Len(a) + Len(b) - 1) |-> Conv(a, b, k, 1)])

\* The sign of a balanced-digit integer is the sign of its leading digit.
BigSign(a) == IF a = <<>> THEN 0 ELSE sign(Last(a))

\* num/den with the powers of Base common to both cancelled.
RECURSIVE Rat(_, _)
Rat(num, den) ==
  IF num # <<>> /\ Len(den) > 1 /\ num[1] = 0 /\ den[1] = 0
  THEN Rat(Tail(num), Tail(den))
  ELSE [num |-> num, den |-> den]
RatInt(n) == Rat(BigInt(n), BigInt(1))
RatAdd(x, y) ==
  Rat(BigAdd(BigMul(x.num, y.den), BigMul(y.num, x.den)), BigMul(x.den, y.den))
RatSub(x, y) ==
  Rat(BigSub(BigMul(x.num, y.den), BigMul(y.num, x.den)), BigMul(x.den, y.den))
RatMul(x, y) == Rat(BigMul(x.num, y.num), BigMul(x.den, y.den))
\* x / y for y # 0
RatDiv(x, y) ==
  IF BigSign(y.num) > 0
  THEN Rat(BigMul(x.num, y.den), BigMul(x.den, y.num))
  ELSE Rat(BigNeg(BigMul(x.num, y.den)), BigNeg(BigMul(x.den, y.num)))
RatSign(x) == BigSign(x.num)
RatCmp(x, y) == BigSign(BigSub(BigMul(x.num, y.den), BigMul(y.num, x.den)))
RatLess(x, y) == RatCmp(x, y) < 0
RatEq(x, y) == RatCmp(x, y) = 0

(***************************************************************************)
(* Backtester: src/src/quant/backtester.py                                  *)
(***************************************************************************)
MaxBars == 3            \* bars a backtested price series holds at most

\* run(df, initial_capital=100000.0, commission=0.0003)
InitialCapital == 100000
CommissionNum == 3
CommissionDen == 10000
Commission == Rat(BigInt(CommissionNum), BigInt(CommissionDen))

\* Close prices in ticks of 0.01: 100.00, 100.01, 100.04 and 200.00.
Closes == {10000, 10001, 10004, 20000}

AllColumns == {"date", "open", "high", "low", "close", "volume"}
required_cols == {"open", "close", "high", "low"}

\* A price frame: its columns and its bars, oldest first.
PriceFrame(columns, closes) ==
  [columns |-> columns,
   rows |-> [t \in 1..Len(closes) |->
               Row(Timestamp(t), closes[t], closes[t], closes[t], closes[t], 100)]]

CloseSeries == UNION { [1..n -> Closes] : n \in 0..MaxBars }

\* The frames a backtest is run on: every close series with all columns,
\* and one series with a column missing.
PriceFrames ==
  { PriceFrame(AllColumns, c) : c \in CloseSeries }
  \cup { PriceFrame(AllColumns \ {col}, <<10000, 10004>>) :
         col \in {"open", "close", "volume"} }

\* Strategy functions handed to Backtester(strategy_func).
\*   long       pd.Series(1, index=df.index)
\*   flat       pd.Series(0, index=df.index)
\*   breakout, dropfirst, raises as in the monitor
BacktestCodes == {"long", "flat", "breakout", "dropfirst", "raises"}

\* A cell of the signal column: a number or NaN.
Sig(v) == [isna |-> FALSE, value |-> v]
NaN == [isna |-> TRUE, value |-> 0]

\* data['signal'] = self.strategy_func(data).  The assignment aligns a
\* Series on the frame's index: the Series of dropfirst carries the labels
\* 1..n-1, so bar 0 gets NaN.  raised: the call raised.
signal_column(func, rows) ==
  LET n == Len(rows)
  IN CASE func = "raises" -> [raised |-> TRUE, values |-> <<>>]
       [] func = "long"   -> [raised |-> FALSE, values |-> [t \in 1..n |-> Sig(1)]]
       [] func = "flat"   -> [raised |-> FALSE, values |-> [t \in 1..n |-> Sig(0)]]
       [] func = "dropfirst" ->
            [raised |-> FALSE,
             values |-> [t \in 1..n |-> IF t = 1 THEN NaN ELSE Sig(breakout(rows)[t])]]
       [] OTHER ->
            [raised |-> FALSE, values |-> [t \in 1..n |-> Sig(breakout(rows)[t])]]

\* Faulty variant: the position is the signal of the same bar.
position_column_unshifted(signal) ==
  [t \in 1..Len(signal) |-> IF signal[t].isna THEN 0 ELSE signal[t].value]

\* data['signal'].shift(1).fillna(0)
position_column(signal) ==
  [t \in 1..Len(signal) |->
     IF t = 1 THEN 0
     ELSE IF signal[t - 1].isna THEN 0 ELSE signal[t - 1].value]

\* data['close'].pct_change().fillna(0)
market_ret(rows) ==
  [t \in 1..Len(rows) |->
     IF t = 1 THEN RatInt(0)
     ELSE Rat(BigInt(rows[t].close - rows[t - 1].close), BigInt(rows[t - 1].close))]

\* Faulty variant: the first bar counts as a trade (fillna(1)).
trade_occurred_first_bar_trades(pos) ==
  [t \in 1..Len(pos) |->
     IF t = 1 THEN 1
     ELSE IF pos[t] >= pos[t - 1] THEN pos[t] - pos[t - 1] ELSE pos[t - 1] - pos[t]]

\* data['position'].diff().abs().fillna(0)
trade_occurred(pos) ==
  [t \in 1..Len(pos) |->
     IF t = 1 THEN 0
     ELSE IF pos[t] >= pos[t - 1] THEN pos[t] - pos[t - 1] ELSE pos[t - 1] - pos[t]]

\* (1 + net_strategy_ret).cumprod() * initial_capital
RECURSIVE equity_curve(_, _)
equity_curve(net, initial_capital) ==
  IF net = <<>> THEN <<>>
  ELSE LET n == Len(net)
           earlier == equity_curve(SubSeq(net, 1, n - 1), initial_capital)
           growth == RatAdd(RatInt(1), net[n])
       IN Append(earlier,
                 IF n = 1 THEN RatMul(growth, RatInt(initial_capital))
                 ELSE RatMul(earlier[n - 1], growth))

\* The columns run adds to the copy of the frame.
columns_of(func_signal, rows, commission, initial_capital) ==
  LET pos == position_column(func_signal)
      mret == market_ret(rows)
      sret == [t \in 1..Len(rows) |-> RatMul(RatInt(pos[t]), mret[t])]
      trade == trade_occurred(pos)
      cost == [t \in 1..Len(rows) |-> RatMul(RatInt(trade[t]), commission)]
      net == [t \in 1..Len(rows) |-> RatSub(sret[t], cost[t])]
  IN [signal |-> func_signal, position |-> pos, market_ret |-> mret,
      strategy_ret |-> sret, trade_occurred |-> trade, cost |-> cost,
      net_strategy_ret |-> net,
      equity_curve |-> equity_curve(net, initial_capital)]

RatAbs(x) == IF RatSign(x) < 0 THEN Rat(BigNeg(x.num), x.den) ELSE x

\* The largest k in lo..hi-1 with k * d <= n, for lo * d <= n < hi * d.
RECURSIVE FloorSearch(_, _, _, _)
FloorSearch(n, d, lo, hi) ==
  IF hi - lo <= 1 THEN lo
  ELSE LET mid == (lo + hi) \div 2
       IN IF BigSign(BigSub(BigMul(BigInt(mid), d), n)) <= 0
          THEN FloorSearch(n, d, mid, hi)
          ELSE FloorSearch(n, d, lo, mid)

\* round(x) for 0 <= x < 16 * Base - 1, ties to the even neighbour.
RoundHalfEven(x) ==
  LET n2 == BigAdd(BigMul(BigInt(2), x.num), x.den)
      d2 == BigMul(BigInt(2), x.den)
      k == FloorSearch(n2, d2, 0, 16 * Base)
      tie == BigSign(BigSub(BigMul(BigInt(k), d2), n2)) = 0
  IN IF tie /\ k % 2 = 1 THEN k - 1 ELSE k

\* f"{x*100:.2f}%": the sign as printed ("-" for every negative x, also
\* one that rounds to -0.00) and the hundredths of a percent.
format_pct(x) ==
  [sign |-> IF RatSign(x) < 0 THEN "-" ELSE "",
   hundredths |-> RoundHalfEven(RatMul(RatAbs(x), RatInt(100 * 100)))]

\* (equity.iloc[-1] - initial_capital) / initial_capital
total_return(equity, initial_capital) ==
  RatDiv(RatSub(Last(equity), RatInt(initial_capital)), RatInt(initial_capital))

\* The largest of a non-empty series.
RECURSIVE RatMax(_)
RatMax(xs) ==
  IF Len(xs) = 1 THEN xs[1]
  ELSE LET m == RatMax(Tail(xs))
       IN IF RatLess(Head(xs), m) THEN m ELSE Head(xs)

\* Faulty variant: the peak is equity.max(), the maximum of the whole curve.
rolling_max_of_whole_curve(equity) ==
  [t \in 1..Len(equity) |-> RatMax(equity)]

\* equity.expanding().max()
RECURSIVE rolling_max(_)
rolling_max(equity) ==
  IF equity = <<>> THEN <<>>
  ELSE LET n == Len(equity)
           earlier == rolling_max(SubSeq(equity, 1, n - 1))
       IN Append(earlier,
                 IF n = 1 THEN equity[1]
                 ELSE IF RatLess(earlier[n - 1], equity[n]) THEN equity[n]
                 ELSE earlier[n - 1])

RECURSIVE RatMin(_)
RatMin(xs) ==
  IF Len(xs) = 1 THEN xs[1]
  ELSE LET m == RatMin(Tail(xs))
       IN IF RatLess(m, Head(xs)) THEN m ELSE Head(xs)

\* Faulty variant: the fall is measured from the equity up to the peak,
\* (rolling_max - equity) / rolling_max, and the largest is reported.
max_drawdown_as_depth(equity) ==
  LET peak == rolling_max(equity)
  IN RatMax([t \in 1..Len(equity) |->
               RatDiv(RatSub(peak[t], equity[t]), peak[t])])

\* drawdown = (equity - rolling_max) / rolling_max; max_drawdown = drawdown.min()
max_drawdown(equity) ==
  LET peak == rolling_max(equity)
  IN RatMin([t \in 1..Len(equity) |->
               RatDiv(RatSub(equity[t], peak[t]), peak[t])])

\* The share of holding bars (position != 0) with net_strategy_ret > 0;
\* 0 without holding bars.
win_rate(pos, net) ==
  LET holding_days == { t \in 1..Len(pos) : pos[t] # 0 }
      wins == { t \in holding_days : RatSign(net[t]) > 0 }
  IN IF Cardinality(holding_days) > 0
     THEN Rat(BigInt(Cardinality(wins)), BigInt(Cardinality(holding_days)))
     ELSE RatInt(0)

MetricKeys == {"total_return", "total_return_pct", "annual_return", "sharpe_ratio",
               "max_drawdown", "volatility", "win_rate"}

NoColumns ==
  [signal |-> <<>>, position |-> <<>>, market_ret |-> <<>>, strategy_ret |-> <<>>,
   trade_occurred |-> <<>>, cost |-> <<>>, net_strategy_ret |-> <<>>,
   equity_curve |-> <<>>]

\* A returned dict: its keys, and the values of the keys that are modelled
\* (total_return_pct is total_return as text; annual_return, sharpe_ratio
\* and volatility are powers and roots of floats and are left out).
ResultDict(ks, error, total, drawdown, wins, data) ==
  [keys |-> ks, error |-> error,
   total_return |-> total,
   max_drawdown |-> format_pct(drawdown),
   win_rate |-> format_pct(wins),
   data |-> data]

EmptyDict == ResultDict({}, "", RatInt(0), RatInt(0), RatInt(0), NoColumns)
ErrorDict(e) == ResultDict({"error"}, e, RatInt(0), RatInt(0), RatInt(0), NoColumns)

\* Backtester._calculate_metrics: equity.iloc[-1] raises IndexError on an
\* empty frame.
calculate_metrics(data, initial_capital) ==
  IF data.equity_curve = <<>>
  THEN [raised |-> TRUE, result |-> EmptyDict]
  ELSE [raised |-> FALSE,
        result |-> ResultDict(MetricKeys, "",
                              total_return(data.equity_curve, initial_capital),
                              max_drawdown(data.equity_curve),
                              win_rate(data.position, data.net_strategy_ret),
                              NoColumns)]

\* Backtester.run
run(func, df, initial_capital, commission) ==
  IF ~(required_cols \subseteq df.columns) THEN EmptyDict          \* return {}
  ELSE LET s == signal_column(func, df.rows)
       IN IF s.raised THEN ErrorDict("strategy raised")
          ELSE LET data == columns_of(s.values, df.rows, commission, initial_capital)
                   m == calculate_metrics(data, initial_capital)
               IN IF m.raised
                  THEN ErrorDict("single positional indexer is out-of-bounds")
                  ELSE [m.result EXCEPT !.keys = @ \cup {"data"}, !.data = data]

(***************************************************************************)
(* QuantRunner.run_backtest: src/src/quant/runner.py                        *)
(***************************************************************************)
\* What _fetch_history_data hands back: None, or a frame.
FetchedFrames == {None} \cup PriceFrames

\* run_backtest with a strategy loaded.  The dict built from the result
\* reads result['data']: a KeyError when the backtester returned {} or an
\* error dict, a ValueError from int() when the last signal is NaN; both
\* are caught by the except clause and returned as {"error": str(e)}.
run_backtest(func, df) ==
  IF df = None THEN ErrorDict("No data found")
  ELSE IF df.rows = <<>> THEN ErrorDict("No data found")
  ELSE LET result == run(func, df, InitialCapital, Commission)
       IN IF "data" \notin result.keys THEN ErrorDict("'data'")
          ELSE IF Last(result.data.signal).isna
          THEN ErrorDict("cannot convert float NaN to integer")
          ELSE [result EXCEPT !.keys = {"stock", "metrics", "last_signal"}]

(***************************************************************************)
(* The backtester on its own: a price frame and a strategy function are     *)
(* given; the frame is run through Backtester.run, or is what               *)
(* QuantRunner.run_backtest has fetched.                                     *)
(***************************************************************************)
BacktestInit ==
  /\ strategy_file = NoFile
  /\ strategies = <<>>
  /\ last = NoOp
  /\ stock_history = [c \in Stocks |-> NoCsv]
  /\ compiled_strategies = <<>>
  /\ history_cache = <<>>
  /\ today = 1
  /\ pc = "backtest"
  /\ tick = NoTick
  /\ backtest \in { [stage |-> "given", func |-> f, df |-> d] :
                    f \in BacktestCodes, d \in FetchedFrames }

\* Faulty variant: the strategy is called before the try is entered.
run_escapes_strategy_outside_try(func, df) ==
  \/ df = None
  \/ required_cols \subseteq df.columns /\ signal_column(func, df.rows).raised

\* Whether a call of Backtester.run ends with an exception reaching the
\* caller.  Two statements stand before the try: df.copy(), an
\* AttributeError when df is None, and the test of the columns, which
\* raises for no frame.  The strategy call, the column arithmetic and
\* _calculate_metrics are inside "try ... except Exception".
run_escapes(func, df) == df = None

\* backtester.run(df), df being a frame.  The columns are assigned to
\* data = df.copy(), and the strategy is handed that copy: the caller's
\* frame is the one it passed in.
Run ==
  /\ backtest.stage = "given"
  /\ backtest.df # None
  /\ backtest' = [stage |-> "run", func |-> backtest.func, df |-> backtest.df,
                  raised |-> run_escapes(backtest.func, backtest.df),
                  result |-> run(backtest.func, backtest.df, InitialCapital, Commission)]
  /\ UNCHANGED <<storeVars, monitorVars>>

\* runner.run_backtest(stock_code)
RunBacktest ==
  /\ backtest.stage = "given"
  /\ backtest' = [stage |-> "run_backtest", func |-> backtest.func, df |-> backtest.df,
                  result |-> run_backtest(backtest.func, backtest.df)]
  /\ UNCHANGED <<storeVars, monitorVars>>

BacktestNext == Run \/ RunBacktest

SpecBacktest == BacktestInit /\ [][BacktestNext]_vars

(***************************************************************************)
(* Properties of the backtester (checked under SpecBacktest)                *)
(***************************************************************************)
\* Backtester.run has returned a result with the computed columns.
computed == backtest.stage = "run" /\ "data" \in backtest.result.keys

\* signal[t] with NaN read as 0
signal_or_0(t) ==
  IF backtest.result.data.signal[t].isna THEN 0
  ELSE backtest.result.data.signal[t].value

\* C17: position lag.  Whatever the series and the strategy, position[0] = 0
\* and strategy_ret[0] = 0, and for every later bar position[t] is
\* signal[t-1] (0 for a NaN signal) and strategy_ret[t] is signal[t-1]
\* times the market return of bar t: the signal of a bar enters no return
\* of that bar or an earlier one.
C17_PositionLag ==
  computed =>
    LET data == backtest.result.data
        mret == market_ret(backtest.df.rows)
    IN \A t \in 1..Len(data.position) :
         IF t = 1
         THEN data.position[1] = 0 /\ RatSign(data.strategy_ret[1]) = 0
         ELSE /\ data.position[t] = signal_or_0(t - 1)
              /\ RatEq(data.strategy_ret[t],
                       RatMul(RatInt(signal_or_0(t - 1)), mret[t]))

\* The first signal is 1 and the price moves on every bar; the position is
\* 0 on the first bar and 1 on the second.
C17_Witness ==
  /\ computed
  /\ Len(backtest.df.rows) >= 2
  /\ backtest.result.data.signal[1] = Sig(1)
  /\ backtest.df.rows[2].close # backtest.df.rows[1].close
  /\ backtest.result.data.position[2] = 1

strictly_increasing(rows) ==
  \A t \in 2..Len(rows) : rows[t].close > rows[t - 1].close

Zero == [sign |-> "", hundredths |-> 0]

\* C18: for a strictly increasing close series of at least two bars and the
\* always-long signal, at the default commission, total_return > 0 and
\* max_drawdown = 0.
C18_RisingLongGains ==
  (computed /\ backtest.func = "long" /\ Len(backtest.df.rows) >= 2
     /\ strictly_increasing(backtest.df.rows)) =>
    /\ RatSign(backtest.result.total_return) > 0
    /\ RatSign(max_drawdown(backtest.result.data.equity_curve)) = 0
    /\ backtest.result.max_drawdown = Zero

\* The first step of the series gains more than the commission charged for
\* entering the position on that bar.
first_step_covers_commission(rows) ==
  RatLess(Commission, market_ret(rows)[2])

\* C18, amended: the same for the rising series whose first step gains more
\* than the commission rate (close[1] / close[0] - 1 > 0.0003).
C18_RisingLongGainsAboveCommission ==
  (computed /\ backtest.func = "long" /\ Len(backtest.df.rows) >= 2
     /\ strictly_increasing(backtest.df.rows)
     /\ first_step_covers_commission(backtest.df.rows)) =>
    /\ RatSign(backtest.result.total_return) > 0
    /\ RatSign(max_drawdown(backtest.result.data.equity_curve)) = 0
    /\ backtest.result.max_drawdown = Zero

\* A series rising by 0.04% on its first step, backtested always long.
C18_Witness ==
  /\ computed
  /\ backtest.func = "long"
  /\ Len(backtest.df.rows) >= 2
  /\ strictly_increasing(backtest.df.rows)
  /\ backtest.df.rows[1].close = 10000
  /\ backtest.df.rows[2].close = 10004

\* C19: for the all-flat signal over a non-empty series, total_return = 0,
\* max_drawdown = 0 and win_rate = 0, the position is 0 on every bar and
\* no bar is charged a commission.
C19_FlatIsNeutral ==
  (backtest.stage = "run" /\ backtest.func = "flat"
     /\ required_cols \subseteq backtest.df.columns /\ backtest.df.rows # <<>>) =>
    /\ computed
    /\ RatSign(backtest.result.total_return) = 0
    /\ RatSign(max_drawdown(backtest.result.data.equity_curve)) = 0
    /\ backtest.result.max_drawdown = Zero
    /\ backtest.result.win_rate = Zero
    /\ \A t \in 1..Len(backtest.df.rows) :
         /\ backtest.result.data.position[t] = 0
         /\ RatSign(backtest.result.data.cost[t]) = 0

\* The flat signal has been backtested over a series whose price moves.
C19_Witness ==
  /\ computed
  /\ backtest.func = "flat"
  /\ Len(backtest.df.rows) >= 2
  /\ backtest.df.rows[2].close > backtest.df.rows[1].close

\* C20: a frame that lacks a required price column, or has no bars, makes
\* Backtester.run return a dict with an "error" entry, and run_backtest
\* return one as well.
C20_InputErrorIsExplicit ==
  (/\ backtest.stage \in {"run", "run_backtest"}
   /\ \/ backtest.df = None
      \/ ~(required_cols \subseteq backtest.df.columns)
      \/ backtest.df.rows = <<>>) =>
    "error" \in backtest.result.keys

\* The frame has the columns of a price series.
well_formed(df) == df # None /\ required_cols \subseteq df.columns

\* C21: the Metrics Engine is total.  For every frame with the price
\* columns and every strategy function, one that raises or returns a series
\* with NaN included, a call of Backtester.run returns a dict, with the
\* statistics or with an "error" entry, no exception reaches the caller,
\* and the caller's frame is the same after the call as before.
C21_RunIsTotal ==
  [][(backtest.stage = "given" /\ backtest'.stage = "run"
        /\ well_formed(backtest.df)) =>
       /\ ~backtest'.raised
       /\ \/ MetricKeys \cup {"data"} \subseteq backtest'.result.keys
          \/ backtest'.result.keys = {"error"} /\ backtest'.result.error # ""
       /\ backtest'.df = backtest.df]_vars

\* Backtester.run has returned an error dict for a strategy that raises on
\* a series of two bars.
C21_Witness ==
  /\ backtest.stage = "run"
  /\ backtest.func = "raises"
  /\ Len(backtest.df.rows) = 2
  /\ well_formed(backtest.df)
  /\ ~backtest.raised
  /\ backtest.result.keys = {"error"}

(***************************************************************************)
(* The strategy store across restarts: one StrategyManager whose writes     *)
(* all reach the file, and a restart of the process, which constructs a new *)
(* StrategyManager on the same file (quant_main.py builds one on every      *)
(* start of the console).                                                    *)
(***************************************************************************)
\* manager = StrategyManager(): the old manager is gone, the new one holds
\* what _load_strategies reads from the file.
Restart ==
  /\ strategies' = ("client" :> load_strategies(strategy_file))
  /\ last' = [op |-> "restart", handle |-> "client", raised |-> FALSE, ok |-> TRUE]
  /\ UNCHANGED <<strategy_file, monitorVars, backtest>>

\* manager.add_strategy(name, description, code), the write succeeding
StoredAdd ==
  /\ \E i \in Ids, n \in Names, d \in Descriptions, c \in StoreCodes :
       add_strategy("client", i, n, d, c, "ok")
  /\ UNCHANGED <<monitorVars, backtest>>

RestartNext == StoredAdd \/ ClientDelete \/ ClientToggle \/ Restart

SpecRestart == StoreInit /\ [][RestartNext]_vars

\* C22: the store is order-preserving and durable across restarts.  After
\* any sequence of add_strategy, delete_strategy and toggle_strategy calls
\* whose writes succeed, a manager newly constructed on the same file lists
\* the records the old manager listed: the same records with the same field
\* values in the same order.
C22_DurableAcrossRestarts ==
  [][last'.op = "restart" => strategies'["client"] = strategies["client"]]_vars

\* A restart has read back two records in the order they were added, the
\* first one toggled to inactive.
C22_Witness ==
  /\ last.op = "restart"
  /\ Len(strategies["client"]) = 2
  /\ strategies["client"][1].id = "9f8e7d6c"
  /\ strategies["client"][1].status = "inactive"
  /\ strategies["client"][2].id = "1a2b3c4d"
  /\ strategies["client"][2].status = "active"
  /\ strategy_file.recs = strategies["client"]

(***************************************************************************)
(* One tick step by step.  run_once holds no await before its last          *)
(* statement and _send_alerts holds none at all, so the event loop that     *)
(* runs "await monitor.run_once(); await asyncio.sleep(60)" can run another *)
(* coroutine, such as the handler of PATCH /strategies/{id}/status, only    *)
(* during the sleep.  Other processes (the data update of quant_main.py)    *)
(* run at any time.                                                          *)
(***************************************************************************)
\* Both instruments have two days of history on disk.
TickHistory ==
  [c \in Stocks |->
     IF c = "600519"
     THEN Frame(TRUE, <<Row(DateStr(2), 10, 12, 10, 11, 120),
                        Row(DateStr(1), 10, 11, 9, 10, 100)>>)
     ELSE Frame(TRUE, <<Row(DateStr(1), 10, 11, 9, 10, 100),
                        Row(DateStr(2), 10, 11, 9, 10, 100)>>)]

\* The frames a data update can download for an instrument.
DownloadedFrames ==
  { Frame(TRUE, <<Row(DateStr(2), 10, 11, 9, 10, 100),
                  Row(DateStr(3), 10, 11, 9, 10, 100)>>) }

TickInit ==
  /\ strategy_file = LiveFile
  /\ strategies = ("monitor" :> load_strategies(LiveFile))
                  @@ ("api" :> load_strategies(LiveFile))
  /\ last = NoOp
  /\ stock_history = TickHistory
  /\ compiled_strategies = compile_all(get_active_strategies(load_strategies(LiveFile)))
  /\ history_cache = load_windows(TickHistory, DefaultLookback)
  /\ today = 1
  /\ pc = "polling"
  /\ tick = NoTick
  /\ backtest = NoBacktest

\* run_once up to the loop: the two guards and the fetch.  The tick keeps
\* what is still to be scanned (todo) and, for reference, the compiled set
\* and the cache it started with.
TickFetch ==
  /\ pc = "polling"
  /\ IF compiled_strategies = <<>> \/ DOMAIN history_cache = {}
     THEN /\ tick' = [NoTick EXCEPT !.status = "returned"]
          /\ pc' = "sleeping"
     ELSE \E fetch \in FetchOutcomes :
            /\ tick' = [status |-> "running", fetch_failed |-> fetch.fails,
                        realtime_data |->
                          fetch_realtime_snapshot(DOMAIN history_cache, fetch.spot_df,
                                                  fetch.fails, today),
                        requests |-> snapshot_requests(DOMAIN history_cache),
                        todo |->
                          fetch_realtime_snapshot(DOMAIN history_cache, fetch.spot_df,
                                                  fetch.fails, today),
                        alerts |-> <<>>, evals |-> <<>>, console |-> FALSE,
                        is_available |-> "not asked", emailed |-> FALSE,
                        compiled |-> compiled_strategies, cache |-> history_cache]
            /\ pc' = "evaluating"
  /\ UNCHANGED <<backtest, strategy_file, strategies, last, stock_history,
                 compiled_strategies, history_cache, today>>

\* One pass of "for stock_code, snapshot in realtime_data.items()": the
\* merge and the loop over self.compiled_strategies, both read from the
\* monitor as it is at that moment.
TickEvaluate ==
  /\ pc = "evaluating"
  /\ tick.todo # <<>>
  /\ LET stock_code == Head(tick.todo).key
         snapshot == Head(tick.todo).value
     IN IF stock_code \notin DOMAIN history_cache
        THEN /\ tick' = [tick EXCEPT !.todo = Tail(@)]
             /\ UNCHANGED <<history_cache, pc>>
        ELSE LET m == merge_window(history_cache[stock_code], snapshot)
             IN IF m.raised
                THEN /\ tick' = [tick EXCEPT !.status = "raised"]
                     /\ pc' = "crashed"
                     /\ UNCHANGED history_cache
                ELSE /\ tick' =
                          [tick EXCEPT
                             !.todo = Tail(@),
                             !.alerts = @ \o evaluate_strategies(
                                               compiled_strategies, stock_code, snapshot,
                                               m.eval_df, strategies["monitor"]),
                             !.evals = Append(@, [stock |-> stock_code,
                                                  snapshot |-> snapshot,
                                                  hist_df |-> history_cache[stock_code],
                                                  eval_df |-> m.eval_df,
                                                  compiled |-> compiled_strategies])]
                     /\ history_cache' = [history_cache EXCEPT ![stock_code] = m.hist_df]
                     /\ UNCHANGED pc
  /\ UNCHANGED <<backtest, strategy_file, strategies, last, stock_history,
                 compiled_strategies, today>>

\* The end of run_once: "if alerts: await self._send_alerts(alerts)".
TickDispatch ==
  /\ pc = "evaluating"
  /\ tick.todo = <<>>
  /\ \E available \in BOOLEAN :
       LET d == IF tick.alerts # <<>> THEN send_alerts(tick.alerts, available)
                ELSE NoDispatch
       IN tick' = [tick EXCEPT !.status = "returned", !.console = d.console,
                                !.is_available = d.is_available,
                                !.emailed = d.emailed]
  /\ pc' = "sleeping"
  /\ UNCHANGED <<backtest, strategy_file, strategies, last, stock_history,
                 compiled_strategies, history_cache, today>>

\* Faulty variant: the handler runs on a thread of its own, at any time.
ReloadContext_at_any_time ==
  /\ \E i \in Ids, st \in Statuses : toggle_strategy("api", i, st, "ok")
  /\ IF last'.ok
     THEN /\ compiled_strategies' =
               compile_all(get_active_strategies(strategies["monitor"]))
          /\ history_cache' = load_windows(stock_history, DefaultLookback)
     ELSE UNCHANGED <<compiled_strategies, history_cache>>
  /\ UNCHANGED <<stock_history, today, pc, tick, backtest>>

\* update_strategy_status served by the event loop that runs the polling
\* loop: the handler, a coroutine without awaits, runs from start to end
\* while the polling coroutine is suspended in asyncio.sleep.
ReloadContext ==
  /\ pc = "sleeping"
  /\ \E i \in Ids, st \in Statuses : toggle_strategy("api", i, st, "ok")
  /\ IF last'.ok
     THEN /\ compiled_strategies' =
               compile_all(get_active_strategies(strategies["monitor"]))
          /\ history_cache' = load_windows(stock_history, DefaultLookback)
     ELSE UNCHANGED <<compiled_strategies, history_cache>>
  /\ UNCHANGED <<stock_history, today, pc, tick, backtest>>

\* run_update_data in another process: storage.save_history(code, df)
\* replaces the instrument's CSV file with the downloaded frame.
UpdateData ==
  /\ \E c \in Stocks, df \in DownloadedFrames :
       /\ stock_history[c] # df
       /\ stock_history' = [stock_history EXCEPT ![c] = df]
  /\ UNCHANGED <<storeVars, compiled_strategies, history_cache, today, pc, tick,
                 backtest>>

TickNext ==
  TickFetch \/ TickEvaluate \/ TickDispatch \/ Sleep \/ ReloadContext \/ UpdateData

SpecTick == TickInit /\ [][TickNext]_vars

\* C23: tick atomicity.  A tick is under way only between its fetch and its
\* dispatch, one at a time; while it is under way the compiled strategies
\* and the window cache of the monitor are the ones the tick started with,
\* and every instrument of the tick has been evaluated against that
\* compiled set and its window in that cache: a reload of the context
\* triggered by a status toggle happens between ticks only.
C23_TickAtomicity ==
  /\ (tick.status = "running") <=> (pc = "evaluating")
  /\ pc = "evaluating" =>
       /\ compiled_strategies = tick.compiled
       /\ history_cache = tick.cache
  /\ tick.status \in {"running", "returned"} =>
       \A k \in 1..Len(tick.evals) :
         /\ tick.evals[k].compiled = tick.compiled
         /\ tick.evals[k].hist_df = tick.cache[tick.evals[k].stock]

\* A tick has evaluated two instruments and returned, after a reload of the
\* context had replaced a window of the cache, and the file of an
\* instrument has changed on disk since.
C23_Witness ==
  /\ tick.status = "returned"
  /\ Len(tick.evals) = 2
  /\ tick.cache # load_windows(TickHistory, DefaultLookback)
  /\ load_windows(stock_history, DefaultLookback) # tick.cache

(***************************************************************************)
(* Further properties of the monitor (checked under Spec)                   *)
(***************************************************************************)
\* The rows carry dates, each later than the one before.
increasing_by_date(rows) ==
  /\ \A t \in 1..Len(rows) : rows[t].date # NoDate
  /\ \A t \in 2..Len(rows) :
       to_datetime(rows[t].date).day > to_datetime(rows[t - 1].date).day

\* C24: every frame handed to a strategy in a tick is strictly increasing
\* by date, hence without a date twice, whichever of the three merge cases
\* applied, provided the cached window it was built from was.
C24_WindowsIncreasing ==
  \A k \in 1..Len(tick.evals) :
    increasing_by_date(tick.evals[k].hist_df.rows) =>
      increasing_by_date(tick.evals[k].eval_df.rows)

\* One tick in which a window got the snapshot appended and another window
\* had its last bar refreshed.
C24_Witness ==
  /\ tick.status = "returned"
  /\ \E j, k \in 1..Len(tick.evals) :
       /\ after(tick.evals[j])
       /\ Len(tick.evals[j].eval_df.rows) = Len(tick.evals[j].hist_df.rows) + 1
       /\ increasing_by_date(tick.evals[j].hist_df.rows)
       /\ same_day(tick.evals[k])
       /\ increasing_by_date(tick.evals[k].hist_df.rows)
       /\ tick.evals[k].eval_df # tick.evals[k].hist_df

(***************************************************************************)
(* Monitor mode with load_context called with a lookback of choice.         *)
(***************************************************************************)
MaxLookback == 3        \* the largest days_lookback load_context is called with

\* Histories on disk: none, two days, three days (rows in file order).
LookbackCsvFiles ==
  { NoCsv,
    Frame(TRUE, <<Row(DateStr(2), 10, 12, 10, 11, 120),
                  Row(DateStr(1), 10, 11, 9, 10, 100)>>),
    Frame(TRUE, <<Row(DateStr(3), 11, 12, 10, 12, 130),
                  Row(DateStr(1), 10, 11, 9, 10, 100),
                  Row(DateStr(2), 10, 12, 10, 11, 120)>>) }

LookbackInit ==
  /\ strategy_file = LiveFile
  /\ strategies = <<>>
  /\ last = NoOp
  /\ stock_history \in [Stocks -> LookbackCsvFiles]
  /\ compiled_strategies = <<>>
  /\ history_cache = <<>>
  /\ today = 1
  /\ pc = "start"
  /\ tick = NoTick
  /\ backtest = NoBacktest

\* monitor.load_context(days_lookback); last keeps the call and its argument.
LoadContextLookback ==
  /\ pc = "constructed"
  /\ \E n \in 1..MaxLookback :
       /\ history_cache' = load_windows(stock_history, n)
       /\ last' = [op |-> "load_context", days_lookback |-> n,
                   raised |-> FALSE, ok |-> TRUE]
  /\ compiled_strategies' = compile_all(get_active_strategies(strategies["monitor"]))
  /\ pc' = "polling"
  /\ UNCHANGED <<backtest, strategy_file, strategies, stock_history, today, tick>>

LookbackNext == Construct \/ LoadContextLookback \/ RunOnce \/ Sleep \/ Interrupt

SpecLookback == LookbackInit /\ [][LookbackNext]_vars

min_of(a, b) == IF a <= b THEN a ELSE b

\* C25: the evaluation window is bounded.  After load_context(lookback)
\* the cache holds a window for exactly the instruments with history, each
\* the most recent min(lookback, N) bars of the N persisted ones; after
\* any number of ticks every cached window still has at most lookback bars,
\* and every frame evaluated in a tick has at most lookback + 1.
C25_WindowBounded ==
  last.op = "load_context" =>
    /\ \A c \in DOMAIN history_cache :
         LET persisted == load_history(stock_history[c]).rows
             N == Len(persisted)
             m == min_of(last.days_lookback, N)
             window == history_cache[c].rows
         IN /\ Len(window) = m
            /\ Len(window) <= last.days_lookback
            /\ \A i \in 1..m : window[i] = persisted[N - m + i]
    /\ \A k \in 1..Len(tick.evals) :
         Len(tick.evals[k].eval_df.rows) <= last.days_lookback + 1

\* After load_context(2) on three persisted bars the window holds the last
\* two, and after load_context(1) on two bars a tick on a later day has
\* evaluated a frame of two bars.
C25_Witness ==
  /\ last.op = "load_context"
  /\ tick.status = "returned"
  /\ \E k \in 1..Len(tick.evals) :
       /\ Len(tick.evals[k].hist_df.rows) = last.days_lookback
       /\ Len(tick.evals[k].eval_df.rows) = last.days_lookback + 1
       /\ Len(load_history(stock_history[tick.evals[k].stock]).rows)
            > last.days_lookback

\* C26: batched fetching.  A tick makes exactly one snapshot request to the
\* provider for all the instruments with a cached window, one or many, and
\* none when there is no compiled strategy or no cached window.
C26_OneRequestPerTick ==
  ticked =>
    tick.requests = IF compiled_strategies = <<>> \/ DOMAIN history_cache = {}
                    THEN 0 ELSE 1

\* A tick over two instruments with a window each has made one request and
\* evaluated both.
C26_Witness ==
  /\ ticked
  /\ Cardinality(DOMAIN history_cache) = 2
  /\ tick.requests = 1
  /\ Len(tick.evals) = 2

\* The stock has no file on disk, or a file without rows.
lacks_history(c) ==
  \/ load_history(stock_history[c]) = None
  \/ load_history(stock_history[c]).rows = <<>>

\* The provider's frame quotes the stock at a positive price.
quoted(spot_df, c) ==
  \E i \in 1..Len(spot_df) : spot_df[i].code = c /\ spot_df[i].quote.price > 0

loaded_context == pc \in {"polling", "sleeping", "crashed", "stopped"}

\* C27: instruments without local history are skipped.  After load_context
\* such an instrument has no cached window, and the cache is the one the
\* list without the instrument would give; no tick has an alert for it,
\* and whatever frame the provider returns for the next tick, one quoting
\* the instrument included, the tick neither merges nor alerts for it.
C27_NoHistoryIsSkipped ==
  loaded_context =>
    \A c \in Stocks :
      lacks_history(c) =>
        /\ c \notin DOMAIN history_cache
        /\ history_cache =
             load_windows_of(SelectSeq(stock_list, LAMBDA x : x # c),
                             stock_history, DefaultLookback)
        /\ \A k \in 1..Len(tick.alerts) : tick.alerts[k].stock # c
        /\ \A k \in 1..Len(tick.evals) : tick.evals[k].stock # c
        /\ pc = "polling" =>
             \A fetch \in FetchOutcomes :
               LET r == run_once(compiled_strategies, history_cache,
                                 strategies["monitor"], fetch.spot_df, fetch.fails,
                                 today, TRUE)
               IN /\ \A k \in 1..Len(r.alerts) : r.alerts[k].stock # c
                  /\ \A k \in 1..Len(r.evals) : r.evals[k].stock # c

\* 000858 has no history, 600519 has; the tick is the one that a provider
\* frame quoting both produces, and it holds an alert for 600519.
C27_Witness ==
  /\ pc = "sleeping"
  /\ lacks_history("000858")
  /\ "600519" \in DOMAIN history_cache
  /\ \E k \in 1..Len(tick.alerts) : tick.alerts[k].stock = "600519"
  /\ \E fetch \in FetchOutcomes :
       /\ quoted(fetch.spot_df, "000858")
       /\ quoted(fetch.spot_df, "600519")
       /\ tick = tick_of(run_once(compiled_strategies, history_cache,
                                  strategies["monitor"], fetch.spot_df, fetch.fails,
                                  today, tick.emailed))

(***************************************************************************)
(* Further properties of the API process (checked under SpecApi)            *)
(***************************************************************************)
\* C28: status domain.  After any sequence of add_strategy and
\* toggle_strategy calls, toggles requested through the status endpoint
\* with any status text included, every record of the store, in the
\* manager's list and in the file, has status active or inactive.
C28_StatusDomain ==
  /\ \A h \in DOMAIN strategies :
       \A k \in 1..Len(strategies[h]) : strategies[h][k].status \in Statuses
  /\ \A k \in 1..Len(strategy_file.recs) : strategy_file.recs[k].status \in Statuses

(***************************************************************************)
(* Further properties of the backtester (checked under SpecBacktest)        *)
(***************************************************************************)
\* Every signal of the run is -1, 0 or 1.
signals_in_range ==
  \A t \in 1..Len(backtest.result.data.signal) :
    /\ ~backtest.result.data.signal[t].isna
    /\ backtest.result.data.signal[t].value \in {-1, 0, 1}

\* C29: max_drawdown is not positive.  For a non-empty series of positive
\* closes and signals in {-1, 0, 1} the equity of the first bar is the
\* starting capital, the running maximum of the equity is at least the
\* starting capital on every bar, the drawdown of every bar is at most 0,
\* and so is the reported max_drawdown, as a number and as printed.
C29_DrawdownNotPositive ==
  (computed /\ backtest.df.rows # <<>> /\ signals_in_range
     /\ \A t \in 1..Len(backtest.df.rows) : backtest.df.rows[t].close > 0) =>
    LET equity == backtest.result.data.equity_curve
        peak == rolling_max(equity)
    IN /\ RatEq(equity[1], RatInt(InitialCapital))
       /\ \A t \in 1..Len(equity) :
            /\ ~RatLess(peak[t], RatInt(InitialCapital))
            /\ RatSign(RatDiv(RatSub(equity[t], peak[t]), peak[t])) <= 0
       /\ RatSign(max_drawdown(equity)) <= 0
       /\ \/ backtest.result.max_drawdown.sign = "-"
          \/ backtest.result.max_drawdown.hundredths = 0

\* A short position over a bar on which the price doubles: the equity ends
\* below zero and the drawdown is below -100%.
C29_Witness ==
  /\ computed
  /\ signals_in_range
  /\ Len(backtest.df.rows) = 3
  /\ backtest.result.data.position[3] = -1
  /\ RatSign(Last(backtest.result.data.equity_curve)) < 0
  /\ backtest.result.max_drawdown.sign = "-"
  /\ backtest.result.max_drawdown.hundredths > 10000

(***************************************************************************)
(* Two StrategyManager instances on one strategy file: strategy_mgr of the  *)
(* API process and the manager of the console (quant_main.py backtest       *)
(* mode), each with the list it loaded when it was constructed.  Every      *)
(* write reaches the file here.                                              *)
(***************************************************************************)
HandlesInit ==
  /\ strategy_file = NoFile
  /\ strategies = ("api" :> load_strategies(NoFile)) @@ ("cli" :> load_strategies(NoFile))
  /\ last = NoOp
  /\ stock_history = [c \in Stocks |-> NoCsv]
  /\ compiled_strategies = <<>>
  /\ history_cache = <<>>
  /\ today = 1
  /\ pc = "serving"
  /\ tick = NoTick
  /\ backtest = NoBacktest

HandleAdd ==
  /\ \E h \in DOMAIN strategies, i \in Ids, d \in Descriptions, c \in StoreCodes :
       add_strategy(h, i, "ma", d, c, "ok")
  /\ UNCHANGED <<monitorVars, backtest>>

HandleDelete ==
  /\ \E h \in DOMAIN strategies, i \in Ids : delete_strategy(h, i, "ok")
  /\ UNCHANGED <<monitorVars, backtest>>

HandleToggle ==
  /\ \E h \in DOMAIN strategies, i \in Ids, st \in Statuses :
       toggle_strategy(h, i, st, "ok")
  /\ UNCHANGED <<monitorVars, backtest>>

HandlesNext == HandleAdd \/ HandleDelete \/ HandleToggle

SpecHandles == HandlesInit /\ [][HandlesNext]_vars

\* C30: no lost update between store handles.  A record just added through
\* one manager is still in the file after the next add, delete or toggle
\* made through the other manager, unless that call deletes the record.
C30_NoLostUpdate ==
  [][(/\ last.op = "add" /\ last.ok
      /\ last'.op \in {"add", "delete", "toggle"}
      /\ last'.handle # last.handle
      /\ ~(last'.op = "delete" /\ last'.id = last.id)) =>
       \E k \in 1..Len(strategy_file'.recs) : strategy_file'.recs[k].id = last.id]_vars

(***************************************************************************)
(* Properties of the alerts (checked under Spec)                            *)
(***************************************************************************)
\* C31: the price of every alert of a tick is the close of the last bar of
\* the frame the alerting signal was computed on, whichever merge case gave
\* that frame: appended, refreshed, or left as cached for a snapshot dated
\* before its last bar.
C31_AlertPriceIsFinalClose ==
  \A a \in 1..Len(tick.alerts) :
    \A k \in 1..Len(tick.evals) :
      tick.evals[k].stock = tick.alerts[a].stock =>
        tick.alerts[a].price = Last(tick.evals[k].eval_df.rows).close

(***************************************************************************)
(* Monitor mode with a notifier that can fail.  The Notifier class          *)
(* (src/notification.py) is a collaborator with is_available() -> bool and  *)
(* a send operation; either call may raise.                                 *)
(***************************************************************************)
\*   unavailable          is_available() returns False
\*   sent                 is_available() returns True, _send_email returns
\*   is_available_raises  is_available() raises
\*   send_raises          is_available() returns True, _send_email raises
NotifierOutcomes == {"unavailable", "sent", "is_available_raises", "send_raises"}

\* RealTimeMonitor._send_alerts with such a notifier: the console block is
\* printed first; nothing in the method catches what the notifier raises.
send_alerts_notifier(alerts, outcome) ==
  [raised |-> outcome \in {"is_available_raises", "send_raises"},
   console |-> TRUE,
   is_available |-> CASE outcome = "unavailable" -> "False"
                      [] outcome = "is_available_raises" -> "raised"
                      [] OTHER -> "True",
   emailed |-> outcome = "sent"]

\* run_once with such a notifier: as run_once up to "if alerts:", then the
\* awaited _send_alerts, whose exception is the exception of run_once.
run_once_notifier(compiled, cache, strats, spot_df, fetch_fails, day, outcome) ==
  LET r == run_once(compiled, cache, strats, spot_df, fetch_fails, day, TRUE)
  IN IF r.status = "returned" /\ r.alerts # <<>>
     THEN LET d == send_alerts_notifier(r.alerts, outcome)
          IN [r EXCEPT !.status = IF d.raised THEN "raised" ELSE "returned",
                       !.console = d.console,
                       !.is_available = d.is_available,
                       !.emailed = d.emailed]
     ELSE r

\* await monitor.run_once() in the while loop of run_monitor_mode, which
\* catches KeyboardInterrupt only.
RunOnceNotifier ==
  /\ pc = "polling"
  /\ \E fetch \in FetchOutcomes, outcome \in NotifierOutcomes :
       LET r == run_once_notifier(compiled_strategies, history_cache,
                                  strategies["monitor"], fetch.spot_df, fetch.fails,
                                  today, outcome)
       IN /\ tick' = tick_of(r)
          /\ history_cache' = r.cache
          /\ pc' = IF r.status = "raised" THEN "crashed" ELSE "sleeping"
  /\ UNCHANGED <<backtest, strategy_file, strategies, last, stock_history,
                 compiled_strategies, today>>

NotifyNext == RunOnceNotifier \/ Sleep \/ Interrupt

SpecNotify == TickInit /\ [][NotifyNext]_vars

\* The notifier raised while the batch of the tick was dispatched.
notifier_failed ==
  /\ tick.alerts # <<>>
  /\ \/ tick.is_available = "raised"
     \/ tick.is_available = "True" /\ ~tick.emailed

\* C32: a failure of the notifier while a non-empty batch is dispatched
\* does not stop the monitor loop: run_once returns, the loop goes to its
\* sleep and on to the next tick.
C32_NotifierFailureSurvived ==
  notifier_failed => tick.status = "returned" /\ pc = "sleeping"

====
